---- MODULE Spec2Model ----
(***************************************************************************)
(* A model of toon-rs, the Rust codec between JSON-like values and TOON    *)
(* (Token-Oriented Object Notation) text.                                  *)
(*                                                                         *)
(* Text is a sequence of one-character strings; a line break is the        *)
(* element "\n".  Values are tagged records (see the Value section).       *)
(***************************************************************************)
EXTENDS Integers, Sequences, FiniteSets, TLC

VARIABLES
    out,      \* LineWriter.out: the text written so far
    wops,     \* number of writer operations applied to `out`
    finished, \* the string returned by LineWriter::into_string, or NoText
    input,    \* the value handed to the encoder, or NoValue
    via,      \* which encoder entry point produced `text`
    opts,     \* the Options used by the last encode/decode call
    text,     \* the TOON text produced by the encoder or handed to the decoder
    result,   \* outcome of the last decode_from_str call, or NoResult
    pc        \* position of the client: "idle", "encoded", "decoded"

vars == <<out, wops, finished, input, via, opts, text, result, pc>>

\* a call of the named function on the argument tuple a; every call between
\* the functions of the codec is made through this one operator
RECURSIVE Invoke(_, _)

(***************************************************************************)
(* Characters and strings                                                  *)
(***************************************************************************)
Digits == <<"0", "1", "2", "3", "4", "5", "6", "7", "8", "9">>

DigitSet == {Digits[i] : i \in 1..Len(Digits)}

LowerSet == {"a", "b", "c", "d", "e", "f", "g", "h", "i", "j", "k", "l", "m",
             "n", "o", "p", "q", "r", "s", "t", "u", "v", "w", "x", "y", "z"}

UpperSet == {"A", "B", "C", "D", "E", "F", "G", "H", "I", "J", "K", "L", "M",
             "N", "O", "P", "Q", "R", "S", "T", "U", "V", "W", "X", "Y", "Z"}

AlphaSet == LowerSet \cup UpperSet

\* Characters that have no notation here are symbolic one-element tokens.
BS == "<cp8>"

DEL == "<cp127>"

ZWSP == "<cp8203>"

\* The printable ASCII characters, U+0020 to U+007E, in code order (the grave
\* accent is the token <cp96>).
Printable ==
    <<" ", "!", "\"", "#", "$", "%", "&", "'", "(", ")", "*", "+",
      ",", "-", ".", "/", "0", "1", "2", "3", "4", "5", "6", "7",
      "8", "9", ":", ";", "<", "=", ">", "?", "@", "A", "B", "C",
      "D", "E", "F", "G", "H", "I", "J", "K", "L", "M", "N", "O",
      "P", "Q", "R", "S", "T", "U", "V", "W", "X", "Y", "Z", "[",
      "\\", "]", "^", "_", "<cp96>", "a", "b", "c", "d", "e", "f", "g",
      "h", "i", "j", "k", "l", "m", "n", "o", "p", "q", "r", "s",
      "t", "u", "v", "w", "x", "y", "z", "{", "|", "}", "~">>

\* Code points of the characters used here (u < 0x20 or u = 0x7F are controls).
ControlCodes == <<[c |-> BS, u |-> 8], [c |-> "\t", u |-> 9], [c |-> "\n", u |-> 10],
                  [c |-> "\f", u |-> 12], [c |-> "\r", u |-> 13], [c |-> DEL, u |-> 127]>>

ControlSet == {ControlCodes[i].c : i \in 1..Len(ControlCodes)}

CharCode(c) ==
    IF c \in ControlSet
    THEN ControlCodes[CHOOSE i \in 1..Len(ControlCodes) : ControlCodes[i].c = c].u
    ELSE 31 + (CHOOSE i \in 1..Len(Printable) : Printable[i] = c)

\* core::char::from_u32 for a code that is not a surrogate
CodeChar(u) ==
    IF \E i \in 1..Len(ControlCodes) : ControlCodes[i].u = u
    THEN ControlCodes[CHOOSE i \in 1..Len(ControlCodes) : ControlCodes[i].u = u].c
    ELSE IF 32 <= u /\ u <= 126 THEN Printable[u - 31]
    ELSE "<cp" \o ToString(u) \o ">"

\* Unicode White_Space members that can be written in this notation
\* (what str::trim removes).
WhiteSet == {" ", "\t", "\n", "\f", "\r"}

Contains(s, c) == \E i \in 1..Len(s) : s[i] = c

StartsWith(s, p) == Len(s) >= Len(p) /\ SubSeq(s, 1, Len(p)) = p

EndsWith(s, p) == Len(s) >= Len(p) /\ SubSeq(s, Len(s) - Len(p) + 1, Len(s)) = p

Drop(s, n) == SubSeq(s, n + 1, Len(s))

Take(s, n) == SubSeq(s, 1, n)

Repeat(c, n) == [i \in 1..n |-> c]

RECURSIVE Concat(_)
Concat(ss) == IF ss = <<>> THEN <<>> ELSE Head(ss) \o Concat(Tail(ss))

RECURSIVE JoinWith(_, _)
JoinWith(ss, sep) ==
    IF ss = <<>> THEN <<>>
    ELSE IF Len(ss) = 1 THEN ss[1]
    ELSE ss[1] \o sep \o JoinWith(Tail(ss), sep)

\* str::trim
RECURSIVE TrimStartSet(_, _)
TrimStartSet(s, ws) ==
    IF s /= <<>> /\ s[1] \in ws THEN TrimStartSet(Tail(s), ws) ELSE s

RECURSIVE TrimEndSet(_, _)
TrimEndSet(s, ws) ==
    IF s /= <<>> /\ s[Len(s)] \in ws THEN TrimEndSet(Take(s, Len(s) - 1), ws) ELSE s

StrTrim(s) == TrimEndSet(TrimStartSet(s, WhiteSet), WhiteSet)

ToLower(c) ==
    IF c \in UpperSet
    THEN CHOOSE l \in LowerSet :
           \E i \in 1..26 :
              /\ <<"a","b","c","d","e","f","g","h","i","j","k","l","m",
                   "n","o","p","q","r","s","t","u","v","w","x","y","z">>[i] = l
              /\ <<"A","B","C","D","E","F","G","H","I","J","K","L","M",
                   "N","O","P","Q","R","S","T","U","V","W","X","Y","Z">>[i] = c
    ELSE c

LowerStr(s) == [i \in 1..Len(s) |-> ToLower(s[i])]

AllDigits(s) == \A i \in 1..Len(s) : s[i] \in DigitSet

DigitVal(c) == CHOOSE d \in 0..9 : Digits[d + 1] = c

\* usize / u64 / i64 Display: decimal digits of a natural number
RECURSIVE NatToStr(_)
NatToStr(n) ==
    IF n < 10 THEN <<Digits[n + 1]>>
    ELSE NatToStr(n \div 10) \o <<Digits[(n % 10) + 1]>>

IntToStr(i) == IF i < 0 THEN <<"-">> \o NatToStr(-i) ELSE NatToStr(i)

\* value of a nonempty digit string
RECURSIVE StrToNat(_)
StrToNat(s) ==
    IF s = <<>> THEN 0
    ELSE StrToNat(Take(s, Len(s) - 1)) * 10 + DigitVal(s[Len(s)])

(***************************************************************************)
(* str::parse::<f64> acceptance (core::num::dec2flt grammar):              *)
(*   Float  ::= Sign? ( 'inf' | 'infinity' | 'nan' | Number )              *)
(*   Number ::= ( Digit+ | Digit+ '.' Digit* | Digit* '.' Digit+ ) Exp?    *)
(*   Exp    ::= 'e' Sign? Digit+          (letters case-insensitive)       *)
(***************************************************************************)
IsExpPart(s) ==
    /\ s /= <<>>
    /\ s[1] \in {"e", "E"}
    /\ LET r == Tail(s)
           d == IF r /= <<>> /\ r[1] \in {"+", "-"} THEN Tail(r) ELSE r
       IN  d /= <<>> /\ AllDigits(d)

IsMantissa(s) ==
    \/ s /= <<>> /\ AllDigits(s)
    \/ \E i \in 1..Len(s) :
          /\ s[i] = "."
          /\ AllDigits(Take(s, i - 1))
          /\ AllDigits(Drop(s, i))
          /\ Len(s) >= 2

IsNumberText(s) ==
    \/ IsMantissa(s)
    \/ \E i \in 2..Len(s) : IsMantissa(Take(s, i - 1)) /\ IsExpPart(Drop(s, i - 1))

ParsesAsF64(s) ==
    LET u == IF s /= <<>> /\ s[1] \in {"+", "-"} THEN Tail(s) ELSE s
    IN  \/ LowerStr(u) \in {<<"i","n","f">>, <<"n","a","n">>,
                            <<"i","n","f","i","n","i","t","y">>}
        \/ IsNumberText(u)

(***************************************************************************)
(* Options (options.rs)                                                    *)
(***************************************************************************)
Delimiters == {"Comma", "Tab", "Pipe"}

(***************************************************************************)
(* encode/primitives.rs                                                    *)
(***************************************************************************)
delimiter_char(delim) ==
    CASE delim = "Comma" -> ","
      [] delim = "Tab" -> "\t"
      [] delim = "Pipe" -> "|"

\* <<>> stands for None, a one-character string for Some(c)
delimiter_symbol(delim) ==
    CASE delim = "Comma" -> <<>>
      [] delim = "Tab" -> <<"\t">>
      [] delim = "Pipe" -> <<"|">>

format_bracket_segment(len, delim) ==
    <<"[">> \o NatToStr(len) \o delimiter_symbol(delim) \o <<"]">>

format_fields_segment(fields, delim) ==
    <<"{">> \o JoinWith(fields, <<delimiter_char(delim)>>) \o <<"}">>

format_inline_array_header(len, delim) ==
    format_bracket_segment(len, delim) \o <<":", " ">>

format_tabular_header(len, fields, delim) ==
    format_bracket_segment(len, delim) \o format_fields_segment(fields, delim) \o <<":">>

format_expanded_array_header(len, delim) ==
    format_bracket_segment(len, delim) \o <<":">>

is_control(c) == c \in ControlSet

looks_like_literal(s) ==
    IF s \in {<<"t","r","u","e">>, <<"f","a","l","s","e">>, <<"n","u","l","l">>}
    THEN TRUE
    ELSE LET sn == StrTrim(s)
         IN  IF sn /= <<>> /\ sn[1] \in {"+", "-"}
             THEN ParsesAsF64(Tail(sn))
             ELSE ParsesAsF64(sn)

\* needs_quotes without the test for ':'
NeedsQuotesColonIgnored(s, delim) ==
    \/ s = <<>>
    \/ s = <<"-">>
    \/ s[1] = "-"
    \/ s[1] = " " \/ s[Len(s)] = " "
    \/ Contains(s, delimiter_char(delim))
    \/ \E i \in 1..Len(s) : s[i] \in {"[", "]", "{", "}"}
    \/ \E i \in 1..Len(s) : s[i] = "\"" \/ s[i] = "\\" \/ is_control(s[i])
    \/ looks_like_literal(s)

needs_quotes(s, delim) ==
    \/ s = <<>>
    \/ s = <<"-">>
    \/ s[1] = "-"
    \/ s[1] = " " \/ s[Len(s)] = " "
    \/ Contains(s, delimiter_char(delim))
    \/ Contains(s, ":")
    \/ \E i \in 1..Len(s) : s[i] \in {"[", "]", "{", "}"}
    \/ \E i \in 1..Len(s) : s[i] = "\"" \/ s[i] = "\\" \/ is_control(s[i])
    \/ looks_like_literal(s)

\* "\u{:04X}" of the code point of a control character without a short escape
HexDigits == <<"0", "1", "2", "3", "4", "5", "6", "7", "8", "9", "A", "B", "C", "D", "E", "F">>

HexEscape(c) ==
    LET u == CharCode(c)
    IN  <<"\\", "u", HexDigits[((u \div 4096) % 16) + 1], HexDigits[((u \div 256) % 16) + 1],
          HexDigits[((u \div 16) % 16) + 1], HexDigits[(u % 16) + 1]>>

EscapeChar(ch) ==
    CASE ch = "\"" -> <<"\\", "\"">>
      [] ch = "\\" -> <<"\\", "\\">>
      [] ch = "\n" -> <<"\\", "n">>
      [] ch = "\r" -> <<"\\", "r">>
      [] ch = "\t" -> <<"\\", "t">>
      [] OTHER -> IF is_control(ch) THEN HexEscape(ch) ELSE <<ch>>

escape_and_quote(s) ==
    <<"\"">> \o Concat([i \in 1..Len(s) |-> EscapeChar(s[i])]) \o <<"\"">>

format_string(s, delim) ==
    IF needs_quotes(s, delim) THEN escape_and_quote(s) ELSE s

\* a variant that inspects only the first character of the key
KeyNeedsQuotesFirstOnly(s) ==
    \/ s = <<>>
    \/ ~(s[1] \in AlphaSet \/ s[1] = "_")

key_needs_quotes(s) ==
    \/ s = <<>>
    \/ ~(s[1] \in AlphaSet \/ s[1] = "_")
    \/ \E i \in 2..Len(s) : ~(s[i] \in AlphaSet \cup DigitSet \/ s[i] = "_" \/ s[i] = ".")

format_key(s) ==
    IF key_needs_quotes(s) THEN escape_and_quote(s) ELSE s

format_bool(b) == IF b THEN <<"t","r","u","e">> ELSE <<"f","a","l","s","e">>

format_null == <<"n","u","l","l">>

(***************************************************************************)
(* Values (value.rs, serde_json::Value).  An object is the ordered         *)
(* sequence of its (key, value) pairs.  A finite double is the decimal     *)
(* m * 10^e of its shortest round-trip digits (m has no trailing zero      *)
(* unless the number is zero); `neg` is its sign bit.  A non-finite double *)
(* exists only on the serializer's input side.                             *)
(***************************************************************************)
Null == [t |-> "null"]

Bool(b) == [t |-> "bool", b |-> b]

Integer(i) == [t |-> "num", k |-> "int", i |-> i]

\* Number::U64 / Number::I64 beyond MaxIntDigits digits: the digits of m
\* followed by e zeros
BigInteger(neg, m, e) == [t |-> "num", k |-> "cast", neg |-> neg, m |-> m, e |-> e]

\* the decimal digits of u64::MAX and of the magnitude of i64::MIN
U64_MAX ==
    <<"1","8","4","4","6","7","4","4","0","7","3","7","0","9","5","5","1","6","1","5">>

I64_MIN ==
    <<"9","2","2","3","3","7","2","0","3","6","8","5","4","7","7","5","8","0","8">>

\* Number::U64(u64::MAX) when ~neg, Number::I64(i64::MIN) when neg
Saturated(neg) == [t |-> "num", k |-> "sat", neg |-> neg]

IsIntegerNumber(n) == n.k \in {"int", "cast", "sat"}

\* u64 / i64 Display
IntegerText(n) ==
    IF n.k = "int" THEN IntToStr(n.i)
    ELSE IF n.k = "cast"
         THEN (IF n.neg THEN <<"-">> ELSE <<>>) \o NatToStr(n.m) \o Repeat("0", n.e)
    ELSE IF n.neg THEN <<"-">> \o I64_MIN ELSE U64_MAX

F64(neg, m, e) == [t |-> "num", k |-> "f64", neg |-> neg, m |-> m, e |-> e]

NonFinite(which) == [t |-> "num", k |-> "nonfinite", w |-> which]

Str(s) == [t |-> "str", s |-> s]

Arr(a) == [t |-> "arr", a |-> a]

Obj(o) == [t |-> "obj", o |-> o]

KV(k, v) == [k |-> k, v |-> v]

\* Value::is_primitive
is_primitive(v) == v.t \in {"null", "bool", "num", "str"}

IsNonFinite(v) == v.t = "num" /\ v.k = "nonfinite"

Keys(o) == [i \in 1..Len(o) |-> o[i].k]

\* serde_json::Map::get
HasKey(o, k) == \E i \in 1..Len(o) : o[i].k = k

Get(o, k) == o[CHOOSE i \in 1..Len(o) : o[i].k = k].v

(***************************************************************************)
(* ryu::Buffer::format_finite (ryu pretty printer) on the shortest digits  *)
(* m and exponent e of a non-negative finite double.                       *)
(***************************************************************************)
RyuFormat(m, e) ==
    IF m = 0 THEN <<"0", ".", "0">>
    ELSE
    LET ds == NatToStr(m)
        L == Len(ds)
        kk == L + e
    IN  IF 0 <= e /\ kk <= 16 THEN ds \o Repeat("0", e) \o <<".", "0">>
        ELSE IF 0 < kk /\ kk <= 16 THEN Take(ds, kk) \o <<".">> \o Drop(ds, kk)
        ELSE IF -5 < kk /\ kk <= 0 THEN <<"0", ".">> \o Repeat("0", -kk) \o ds
        ELSE IF L = 1 THEN ds \o <<"e">> \o IntToStr(kk - 1)
        ELSE <<ds[1], ".">> \o Tail(ds) \o <<"e">> \o IntToStr(kk - 1)

\* serde_json::Number Display: integers in decimal, doubles through ryu
JsonNumberToString(n) ==
    IF IsIntegerNumber(n) THEN IntegerText(n)
    ELSE (IF n.neg THEN <<"-">> ELSE <<>>) \o RyuFormat(n.m, n.e)

(***************************************************************************)
(* number.rs                                                               *)
(***************************************************************************)
IndexOfIn(s, cs) ==
    IF \E i \in 1..Len(s) : s[i] \in cs
    THEN CHOOSE i \in 1..Len(s) : s[i] \in cs /\ \A j \in 1..(i - 1) : s[j] \notin cs
    ELSE 0

\* str::parse::<i32> of an exponent, 0 when it fails (unwrap_or(0))
ParseI32Or0(s) ==
    LET d == IF s /= <<>> /\ s[1] \in {"+", "-"} THEN Tail(s) ELSE s
    IN  IF d = <<>> \/ ~AllDigits(d) THEN 0
        ELSE IF s[1] = "-" THEN -StrToNat(d) ELSE StrToNat(d)

expand_exponent(mantissa, exp) ==
    LET dot == IndexOfIn(mantissa, {"."})
        digits == IF dot = 0 THEN mantissa ELSE Take(mantissa, dot - 1) \o Drop(mantissa, dot)
        point_index == IF dot = 0 THEN Len(digits) ELSE dot - 1
    IN  IF exp >= 0
        THEN LET target == point_index + exp
             IN  IF target >= Len(digits)
                 THEN digits \o Repeat("0", target - Len(digits))
                 ELSE Take(digits, target) \o <<".">> \o Drop(digits, target)
        ELSE LET shift == -exp
             IN  IF shift >= point_index
                 THEN <<"0", ".">> \o Repeat("0", shift - point_index) \o digits
                 ELSE Take(digits, point_index - shift) \o <<".">>
                      \o Drop(digits, point_index - shift)

trim_fraction(s) ==
    LET dot == IndexOfIn(s, {"."})
    IN  IF dot = 0 THEN s
        ELSE LET z == TrimEndSet(Drop(s, dot), {"0"})
             IN  IF z = <<>> THEN Take(s, dot - 1) ELSE Take(s, dot) \o z

\* format_canonical_f64 of a finite double
format_canonical_f64(n) ==
    IF n.m = 0 THEN <<"0">>
    ELSE LET raw == RyuFormat(n.m, n.e)
             exp_index == IndexOfIn(raw, {"e", "E"})
             body == IF exp_index /= 0
                     THEN expand_exponent(Take(raw, exp_index - 1),
                                          ParseI32Or0(Drop(raw, exp_index)))
                     ELSE raw
             trimmed == trim_fraction(body)
         IN  IF trimmed = <<"0">> THEN <<"0">>
             ELSE IF n.neg THEN <<"-">> \o trimmed ELSE trimmed

format_f64(n) == format_canonical_f64(n)

has_forbidden_leading_zeros(token0) ==
    LET t1 == StrTrim(token0)
        t2 == IF t1 /= <<>> /\ t1[1] = "-" THEN Tail(t1) ELSE t1
        t3 == IF t2 /= <<>> /\ t2[1] = "+" THEN Tail(t2) ELSE t2
    IN  IF t1 = <<>> THEN FALSE
        ELSE IF Len(t3) <= 1 THEN FALSE
        ELSE IF t3[1] /= "0" THEN FALSE
        ELSE IF t3[2] \in {".", "e", "E"} THEN FALSE
        ELSE TRUE

(***************************************************************************)
(* encode/writer.rs: LineWriter.  Each operation maps the text written so  *)
(* far to the text after the call.                                         *)
(***************************************************************************)
write_indent(o, indent) == o \o Repeat(" ", indent)

line(o, indent, s) == write_indent(o, indent) \o s \o <<"\n">>

line_kv(o, indent, key, value) ==
    write_indent(o, indent) \o key \o <<":", " ">> \o value \o <<"\n">>

line_list_item(o, indent, value) ==
    write_indent(o, indent) \o <<"-", " ">> \o value \o <<"\n">>

line_key_only(o, indent, key) ==
    write_indent(o, indent) \o key \o <<":">> \o <<"\n">>

into_string(o) == o

(***************************************************************************)
(* encode/encoders.rs: the value-based encoder.  Every function takes the  *)
(* text written so far (`o`) and returns the text after its writes.        *)
(***************************************************************************)
None == [some |-> FALSE, v |-> <<>>]

Some(x) == [some |-> TRUE, v |-> x]

is_primitive_array(items) == \A i \in 1..Len(items) : is_primitive(items[i])

\* slice::sort on a vector of distinct strings is determined by its element set
SameKeySet(ks, kset) ==
    /\ Len(ks) = Len(kset)
    /\ {ks[i] : i \in 1..Len(ks)} = {kset[i] : i \in 1..Len(kset)}

is_tabular_array(arr) ==
    IF arr = <<>> THEN None
    ELSE IF \E i \in 1..Len(arr) : arr[i].t /= "obj" THEN None
    ELSE IF \E i \in 1..Len(arr) :
               \/ ~SameKeySet(Keys(arr[1].o), Keys(arr[i].o))
               \/ \E j \in 1..Len(arr[i].o) : ~is_primitive(arr[i].o[j].v)
         THEN None
    ELSE Some(Keys(arr[1].o))

join_with_delim(cells, dch) == JoinWith(cells, <<dch>>)

format_primitive_value(v, delim) ==
    CASE v.t = "null" -> format_null
      [] v.t = "bool" -> format_bool(v.b)
      [] v.t = "num" -> JsonNumberToString(v)
      [] v.t = "str" -> Invoke("format_string", <<v.s, delim>>)
      [] OTHER -> format_null

encoders_key_needs_quotes(key) ==
    \/ key = <<>>
    \/ ~(key[1] \in AlphaSet \/ key[1] = "_")
    \/ \E i \in 2..Len(key) : ~(key[i] \in AlphaSet \cup DigitSet \/ key[i] = "_")

\* the segment limit with flatten_depth counted one too high
MaxSegmentsOneMore(o) == IF o.flatten_depth = <<>> THEN 2147483647 ELSE o.flatten_depth[1] + 1

\* opts.flatten_depth.unwrap_or(usize::MAX); usize::MAX is represented by the
\* largest integer of the checker, which no path length reaches
MaxSegments(o) == IF o.flatten_depth = <<>> THEN 2147483647 ELSE o.flatten_depth[1]

\* The loop of try_fold_keys: walks the chain of single-key objects.
\* Returns the path and the final value (None when it stopped at a key that
\* needs quotes).
RECURSIVE FoldWalk(_, _, _)
FoldWalk(path_segments, current_obj, max_segments) ==
    LET k == current_obj[1].k
        v == current_obj[1].v
        path2 == Append(path_segments, k)
    IN  IF encoders_key_needs_quotes(k) THEN [path |-> path_segments, final |-> None]
        ELSE IF Len(path2) >= max_segments THEN [path |-> path2, final |-> Some(v)]
        ELSE IF v.t = "obj" /\ Len(v.o) = 1 THEN FoldWalk(path2, v.o, max_segments)
        ELSE [path |-> path2, final |-> Some(v)]

\* Navigation of try_fold_keys after a stop at a quoted key: follows
\* path_segments[1..] except the last inside initial_obj.
RECURSIVE FoldNavigate(_, _)
FoldNavigate(nav_obj, segs) ==
    IF segs = <<>> THEN Some(nav_obj)
    ELSE IF HasKey(nav_obj, segs[1]) /\ Get(nav_obj, segs[1]).t = "obj"
         THEN FoldNavigate(Get(nav_obj, segs[1]).o, Tail(segs))
         ELSE None

try_fold_keys(initial_key, initial_obj, o, sibling_keys) ==
    LET max_segments == MaxSegments(o)
    IN  IF max_segments < 2 THEN None
        ELSE IF Len(initial_obj) /= 1 THEN None
        ELSE IF encoders_key_needs_quotes(initial_key) THEN None
        ELSE
        LET w == FoldWalk(<<initial_key>>, initial_obj, max_segments)
            folded_key == JoinWith(w.path, <<".">>)
            collides == sibling_keys.some /\ \E i \in 1..Len(sibling_keys.v) :
                                                 sibling_keys.v[i] = folded_key
        IN  IF Len(w.path) < 2 THEN None
            ELSE IF w.final.some
                 THEN (IF collides THEN None ELSE Some([key |-> folded_key, value |-> w.final.v]))
            ELSE LET nav == FoldNavigate(initial_obj, SubSeq(w.path, 2, Len(w.path) - 1))
                     last_seg == w.path[Len(w.path)]
                 IN  IF ~nav.some THEN None
                     ELSE IF HasKey(nav.v, last_seg)
                          THEN (IF collides THEN None
                                ELSE Some([key |-> folded_key, value |-> Get(nav.v, last_seg)]))
                          ELSE None

try_fold_keys_no_collision(initial_key, initial_obj, o) ==
    Invoke("try_fold_keys", <<initial_key, initial_obj, o, None>>)

\* the rows of a tabular array, one line each at `indent`
RECURSIVE EncodeRows(_, _, _, _, _, _)
EncodeRows(o, items, i, keys, delim, indent) ==
    IF i > Len(items) THEN o
    ELSE LET cells == [j \in 1..Len(keys) |->
                          Invoke("format_primitive_value", <<Get(items[i].o, keys[j]), delim>>)]
             row == join_with_delim(cells, delimiter_char(delim))
         IN  EncodeRows(line(o, indent, row), items, i + 1, keys, delim, indent)

FieldCells(keys) == [j \in 1..Len(keys) |-> Invoke("format_key", <<keys[j]>>)]

InlineCells(items, delim) ==
    join_with_delim([j \in 1..Len(items) |-> Invoke("format_primitive_value", <<items[j], delim>>)],
                    delimiter_char(delim))

RECURSIVE encode_value(_, _, _, _)
RECURSIVE encode_object_field_with_context(_, _, _, _, _, _)
RECURSIVE encode_folded_value(_, _, _, _, _)
RECURSIVE encode_keyed_array(_, _, _, _, _)
RECURSIVE encode_array(_, _, _, _)
RECURSIVE encode_list_item(_, _, _, _)
RECURSIVE encode_list_item_array(_, _, _, _)
RECURSIVE encode_list_item_object(_, _, _, _)
RECURSIVE EncodeFields(_, _, _, _, _, _)
RECURSIVE EncodeListItems(_, _, _, _, _)

\* `for (k, v) in obj` over fields i.. with the given sibling context
EncodeFields(o, obj, i, op, indent, sibling_keys) ==
    IF i > Len(obj) THEN o
    ELSE EncodeFields(
            Invoke("encode_object_field_with_context", <<o, obj[i].k, obj[i].v, op, indent, sibling_keys>>),
            obj, i + 1, op, indent, sibling_keys)

\* `for item in items { encode_list_item(..) }`
EncodeListItems(o, items, i, op, indent) ==
    IF i > Len(items) THEN o
    ELSE EncodeListItems(encode_list_item(o, items[i], op, indent), items, i + 1, op, indent)

encode_value(o, value, op, indent) ==
    CASE value.t = "null" -> line(o, indent, format_null)
      [] value.t = "bool" -> line(o, indent, format_bool(value.b))
      [] value.t = "num" -> line(o, indent, JsonNumberToString(value))
      [] value.t = "str" -> line(o, indent, Invoke("format_string", <<value.s, op.delimiter>>))
      [] value.t = "arr" -> Invoke("encode_array", <<o, value.a, op, indent>>)
      [] value.t = "obj" -> EncodeFields(o, value.o, 1, op, indent, None)

encode_object_field_internal(o, key, value, op, indent) ==
    Invoke("encode_object_field_with_context", <<o, key, value, op, indent, None>>)

encode_object_field(o, key, value, op, indent) ==
    Invoke("encode_object_field_with_context", <<o, key, value, op, indent, None>>)

encode_object_field_with_siblings(o, key, value, op, indent, sibling_keys) ==
    Invoke("encode_object_field_with_context", <<o, key, value, op, indent, Some(sibling_keys)>>)

encode_object_field_with_context(o, key, value, op, indent, sibling_keys) ==
    LET key_fmt == Invoke("format_key", <<key>>)
        possible_fold == IF op.key_folding = "Safe" /\ value.t = "obj"
                         THEN try_fold_keys_no_collision(key, value.o, op)
                         ELSE None
        has_collision == possible_fold.some /\ sibling_keys.some
                         /\ \E i \in 1..Len(sibling_keys.v) :
                               sibling_keys.v[i] = possible_fold.v.key
        nested_opts == IF has_collision THEN [op EXCEPT !.key_folding = "Off"] ELSE op
    IN  IF possible_fold.some /\ ~has_collision
        THEN Invoke("encode_folded_value", <<o, possible_fold.v.key, possible_fold.v.value, op, indent>>)
        ELSE
        CASE value.t = "null" -> line_kv(o, indent, key_fmt, format_null)
          [] value.t = "bool" -> line_kv(o, indent, key_fmt, format_bool(value.b))
          [] value.t = "num" -> line_kv(o, indent, key_fmt, JsonNumberToString(value))
          [] value.t = "str" -> line_kv(o, indent, key_fmt, Invoke("format_string", <<value.s, op.delimiter>>))
          [] value.t = "arr" -> Invoke("encode_keyed_array", <<o, key_fmt, value.a, nested_opts, indent>>)
          [] value.t = "obj" ->
                EncodeFields(line_key_only(o, indent, key_fmt), value.o, 1, nested_opts,
                             indent + op.indent, Some(Keys(value.o)))

encode_folded_value(o, folded_key, value, op, indent) ==
    LET nested_opts == [op EXCEPT !.key_folding = "Off"]
    IN  CASE value.t = "null" -> line_kv(o, indent, folded_key, format_null)
          [] value.t = "bool" -> line_kv(o, indent, folded_key, format_bool(value.b))
          [] value.t = "num" -> line_kv(o, indent, folded_key, JsonNumberToString(value))
          [] value.t = "str" ->
                line_kv(o, indent, folded_key, Invoke("format_string", <<value.s, op.delimiter>>))
          [] value.t = "arr" -> Invoke("encode_keyed_array", <<o, folded_key, value.a, nested_opts, indent>>)
          [] value.t = "obj" ->
                EncodeFields(line_key_only(o, indent, folded_key), value.o, 1, nested_opts,
                             indent + op.indent, Some(Keys(value.o)))

encode_keyed_array(o, key, items, op, indent) ==
    LET len == Len(items)
        delim == op.delimiter
        tab == is_tabular_array(items)
    IN  IF items = <<>>
        THEN line(o, indent, key \o format_bracket_segment(0, delim) \o <<":">>)
        ELSE IF tab.some
        THEN EncodeRows(
                line(o, indent, key \o format_tabular_header(len, FieldCells(tab.v), delim)),
                items, 1, tab.v, delim, indent + op.indent)
        ELSE IF is_primitive_array(items)
        THEN line(o, indent, key \o format_bracket_segment(len, delim) \o <<":", " ">>
                              \o InlineCells(items, delim))
        ELSE EncodeListItems(
                line(o, indent, key \o format_expanded_array_header(len, delim)),
                items, 1, op, indent + op.indent)

encode_array(o, items, op, indent) ==
    LET len == Len(items)
        delim == op.delimiter
        tab == is_tabular_array(items)
    IN  IF items = <<>>
        THEN line(o, indent, format_expanded_array_header(0, delim))
        ELSE IF tab.some
        THEN EncodeRows(
                line(o, indent, format_tabular_header(len, FieldCells(tab.v), delim)),
                items, 1, tab.v, delim, indent + op.indent)
        ELSE IF is_primitive_array(items)
        THEN line(o, indent, format_bracket_segment(len, delim) \o <<":", " ">>
                              \o InlineCells(items, delim))
        ELSE EncodeListItems(
                line(o, indent, format_expanded_array_header(len, delim)),
                items, 1, op, indent + op.indent)

encode_list_item(o, item, op, indent) ==
    CASE item.t = "null" -> line_list_item(o, indent, format_null)
      [] item.t = "bool" -> line_list_item(o, indent, format_bool(item.b))
      [] item.t = "num" -> line_list_item(o, indent, JsonNumberToString(item))
      [] item.t = "str" -> line_list_item(o, indent, Invoke("format_string", <<item.s, op.delimiter>>))
      [] item.t = "arr" -> Invoke("encode_list_item_array", <<o, item.a, op, indent>>)
      [] item.t = "obj" -> Invoke("encode_list_item_object", <<o, item.o, op, indent>>)

encode_list_item_array(o, items, op, indent) ==
    LET len == Len(items)
        delim == op.delimiter
    IN  IF items = <<>>
        THEN line_list_item(o, indent, format_bracket_segment(0, delim) \o <<":">>)
        ELSE IF is_primitive_array(items)
        THEN line_list_item(o, indent, format_bracket_segment(len, delim) \o <<":", " ">>
                                        \o InlineCells(items, delim))
        ELSE EncodeListItems(
                line_list_item(o, indent, format_expanded_array_header(len, delim)),
                items, 1, op, indent + op.indent)

encode_list_item_object(o, obj, op, indent) ==
    IF obj = <<>> THEN line(o, indent, <<"-">>)
    ELSE
    LET first_key == obj[1].k
        first_value == obj[1].v
        first_key_fmt == Invoke("format_key", <<first_key>>)
        delim == op.delimiter
        tab == IF first_value.t = "arr" THEN is_tabular_array(first_value.a) ELSE None
        dash == <<"-", " ">> \o first_key_fmt
    IN  IF tab.some
        THEN EncodeFields(
                EncodeRows(
                    line_list_item(o, indent,
                        first_key_fmt
                        \o format_tabular_header(Len(first_value.a), FieldCells(tab.v), delim)),
                    first_value.a, 1, tab.v, delim, indent + 4),
                obj, 2, op, indent + op.indent, None)
        ELSE
        LET o1 ==
              CASE first_value.t = "null" -> line(o, indent, dash \o <<":", " ">> \o format_null)
                [] first_value.t = "bool" ->
                      line(o, indent, dash \o <<":", " ">> \o format_bool(first_value.b))
                [] first_value.t = "num" ->
                      line(o, indent, dash \o <<":", " ">> \o JsonNumberToString(first_value))
                [] first_value.t = "str" ->
                      line(o, indent, dash \o <<":", " ">> \o Invoke("format_string", <<first_value.s, delim>>))
                [] first_value.t = "arr" ->
                      IF first_value.a = <<>>
                      THEN line(o, indent, dash \o format_bracket_segment(0, delim) \o <<":">>)
                      ELSE IF is_primitive_array(first_value.a)
                      THEN line(o, indent,
                                dash \o format_bracket_segment(Len(first_value.a), delim)
                                \o <<":", " ">> \o InlineCells(first_value.a, delim))
                      ELSE EncodeListItems(
                              line(o, indent,
                                   dash \o format_expanded_array_header(Len(first_value.a), delim)),
                              first_value.a, 1, op, indent + 4)
                [] first_value.t = "obj" ->
                      EncodeFields(line(o, indent, dash \o <<":">>), first_value.o, 1, op,
                                   indent + 4, None)
        IN  EncodeFields(o1, obj, 2, op, indent + op.indent, None)

\* encode/normalize.rs: normalize_value copies the value
normalize_value(v) == v

\* encode/mod.rs
encode_value_to_string(value, op) ==
    into_string(Invoke("encode_value", <<<<>>, normalize_value(value), op, 0>>))

(***************************************************************************)
(* ser/: the serde front end.  The serializer's input is a value of the    *)
(* serde data model: the variants of Value, a double that may be           *)
(* non-finite, and a struct (tag "struct", fields in `o`).                 *)
(***************************************************************************)
Struct(o) == [t |-> "struct", o |-> o]

\* ser/value_builder: to_value builds a Value; a non-finite double becomes Null
RECURSIVE to_value(_)
to_value(v) ==
    CASE v.t = "num" -> IF v.k = "nonfinite" THEN Null ELSE v
      [] v.t = "arr" -> Arr([i \in 1..Len(v.a) |-> Invoke("to_value", <<v.a[i]>>)])
      [] v.t \in {"obj", "struct"} ->
            Obj([i \in 1..Len(v.o) |-> KV(v.o[i].k, Invoke("to_value", <<v.o[i].v>>))])
      [] OTHER -> v

\* ser/mod.rs: to_string, the value-based entry point
to_string(value, op) == encode_value_to_string(Invoke("to_value", <<value>>), op)

\* ScalarSerializer::serialize_f64
ScalarSerializer_serialize_f64(v) ==
    IF v.k /= "nonfinite" THEN Invoke("format_f64", <<v>>)
    ELSE IF v.w = "NaN" THEN escape_and_quote(<<"N","a","N">>)
    ELSE IF v.w = "Infinity" THEN escape_and_quote(<<"I","n","f","i","n","i","t","y">>)
    ELSE escape_and_quote(<<"-","I","n","f","i","n","i","t","y">>)

\* try_scalar_to_string: Some(text) for a scalar, None for Err("non-scalar")
try_scalar_to_string(value, op) ==
    CASE value.t = "null" -> Some(format_null)
      [] value.t = "bool" -> Some(format_bool(value.b))
      [] value.t = "num" ->
            IF IsIntegerNumber(value) THEN Some(IntegerText(value))
            ELSE Some(ScalarSerializer_serialize_f64(value))
      [] value.t = "str" -> Some(Invoke("format_string", <<value.s, op.delimiter>>))
      [] OTHER -> None

is_primitive_array_json(items) ==
    \A i \in 1..Len(items) : items[i].t \in {"null", "bool", "num", "str"}

format_primitive_value_json(v, delim) ==
    CASE v.t = "null" -> format_null
      [] v.t = "bool" -> format_bool(v.b)
      [] v.t = "num" -> JsonNumberToString(v)
      [] v.t = "str" -> Invoke("format_string", <<v.s, delim>>)
      [] OTHER -> format_null

RECURSIVE EncodeRowsJson(_, _, _, _, _, _)
EncodeRowsJson(o, items, i, keys, delim, indent) ==
    IF i > Len(items) THEN o
    ELSE LET cells == [j \in 1..Len(keys) |->
                          Invoke("format_primitive_value_json", <<Get(items[i].o, keys[j]), delim>>)]
             row == join_with_delim(cells, delimiter_char(delim))
         IN  EncodeRowsJson(line(o, indent, row), items, i + 1, keys, delim, indent)

InlineCellsJson(items, delim) ==
    join_with_delim([j \in 1..Len(items) |-> Invoke("format_primitive_value_json", <<items[j], delim>>)],
                    delimiter_char(delim))

RECURSIVE encode_list_item_json(_, _, _, _)
RECURSIVE encode_keyed_array_json(_, _, _, _, _)
RECURSIVE EncodeListItemsJson(_, _, _, _, _)
RECURSIVE EncodeItemFieldsJson(_, _, _, _, _, _)

EncodeListItemsJson(o, items, i, op, indent) ==
    IF i > Len(items) THEN o
    ELSE EncodeListItemsJson(Invoke("encode_list_item_json", <<o, items[i], op, indent>>),
                             items, i + 1, op, indent)

\* The field loops of encode_list_item_json: fields i.. of `obj`, keys at
\* `indent`, the children of an object-valued field at `child_indent`.
EncodeItemFieldsJson(o, obj, i, op, indent, child_indent) ==
    IF i > Len(obj) THEN o
    ELSE
    LET key_fmt == Invoke("format_key", <<obj[i].k>>)
        v == obj[i].v
        o1 == CASE v.t = "null" -> line_kv(o, indent, key_fmt, format_null)
                [] v.t = "bool" -> line_kv(o, indent, key_fmt, format_bool(v.b))
                [] v.t = "num" -> line_kv(o, indent, key_fmt, JsonNumberToString(v))
                [] v.t = "str" -> line_kv(o, indent, key_fmt, Invoke("format_string", <<v.s, op.delimiter>>))
                [] v.t = "arr" -> Invoke("encode_keyed_array_json", <<o, key_fmt, v.a, op, indent>>)
                [] v.t = "obj" ->
                      Invoke("encode_value", <<line_key_only(o, indent, key_fmt), v, op, child_indent>>)
    IN  EncodeItemFieldsJson(o1, obj, i + 1, op, indent, child_indent)

encode_list_item_json(o, item, op, indent) ==
    LET delim == op.delimiter
    IN
    CASE item.t = "null" -> line_list_item(o, indent, format_null)
      [] item.t = "bool" -> line_list_item(o, indent, format_bool(item.b))
      [] item.t = "num" -> line_list_item(o, indent, JsonNumberToString(item))
      [] item.t = "str" -> line_list_item(o, indent, Invoke("format_string", <<item.s, delim>>))
      [] item.t = "arr" ->
            IF item.a = <<>>
            THEN line_list_item(o, indent, format_bracket_segment(0, delim) \o <<":">>)
            ELSE IF is_primitive_array_json(item.a)
            THEN line_list_item(o, indent,
                    format_bracket_segment(Len(item.a), delim) \o <<":", " ">>
                    \o InlineCellsJson(item.a, delim))
            ELSE EncodeListItemsJson(
                    line_list_item(o, indent, format_expanded_array_header(Len(item.a), delim)),
                    item.a, 1, op, indent + op.indent)
      [] item.t = "obj" ->
            IF item.o = <<>> THEN line(o, indent, <<"-">>)
            ELSE
            LET obj == item.o
                first_value == obj[1].v
                first_key_fmt == Invoke("format_key", <<obj[1].k>>)
                dash == <<"-", " ">> \o first_key_fmt
                tab == IF first_value.t = "arr" THEN is_tabular_array(first_value.a) ELSE None
            IN  IF tab.some
                THEN EncodeItemFieldsJson(
                        EncodeRowsJson(
                            line_list_item(o, indent,
                                first_key_fmt \o format_tabular_header(Len(first_value.a),
                                                                       FieldCells(tab.v), delim)),
                            first_value.a, 1, tab.v, delim, indent + 4),
                        obj, 2, op, indent + op.indent, indent + 4)
                ELSE
                LET o1 ==
                      CASE first_value.t = "null" ->
                              line(o, indent, dash \o <<":", " ">> \o format_null)
                        [] first_value.t = "bool" ->
                              line(o, indent, dash \o <<":", " ">> \o format_bool(first_value.b))
                        [] first_value.t = "num" ->
                              line(o, indent,
                                   dash \o <<":", " ">> \o JsonNumberToString(first_value))
                        [] first_value.t = "str" ->
                              line(o, indent,
                                   dash \o <<":", " ">> \o Invoke("format_string", <<first_value.s, delim>>))
                        [] first_value.t = "arr" ->
                              IF first_value.a = <<>>
                              THEN line(o, indent,
                                        dash \o format_bracket_segment(0, delim) \o <<":">>)
                              ELSE IF is_primitive_array_json(first_value.a)
                              THEN line(o, indent,
                                        dash \o format_bracket_segment(Len(first_value.a), delim)
                                        \o <<":", " ">> \o InlineCellsJson(first_value.a, delim))
                              ELSE EncodeListItemsJson(
                                      line(o, indent,
                                           dash \o format_expanded_array_header(
                                                      Len(first_value.a), delim)),
                                      first_value.a, 1, op, indent + 4)
                        [] first_value.t = "obj" ->
                              EncodeItemFieldsJson(line(o, indent, dash \o <<":">>),
                                                   first_value.o, 1, op, indent + 4, indent + 6)
                IN  EncodeItemFieldsJson(o1, obj, 2, op, indent + op.indent, indent + 4)

encode_keyed_array_json(o, key, items, op, indent) ==
    LET len == Len(items)
        delim == op.delimiter
        tab == is_tabular_array(items)
    IN  IF items = <<>>
        THEN line(o, indent, key \o format_bracket_segment(0, delim) \o <<":">>)
        ELSE IF tab.some
        THEN EncodeRowsJson(
                line(o, indent, key \o format_tabular_header(len, FieldCells(tab.v), delim)),
                items, 1, tab.v, delim, indent + op.indent)
        ELSE IF is_primitive_array_json(items)
        THEN line(o, indent, key \o format_bracket_segment(len, delim) \o <<":", " ">>
                              \o InlineCellsJson(items, delim))
        ELSE EncodeListItemsJson(
                line(o, indent, key \o format_expanded_array_header(len, delim)),
                items, 1, op, indent + op.indent)

\* SeqSer: serialize_element pushes to_value(element); end() writes the array
SeqSer_end(o, items, op, indent) ==
    LET len == Len(items)
        delim == op.delimiter
        tab == is_tabular_array(items)
    IN  IF tab.some
        THEN EncodeRowsJson(
                line(o, indent, format_tabular_header(len, FieldCells(tab.v), delim)),
                items, 1, tab.v, delim, indent + op.indent)
        ELSE IF items = <<>>
        THEN line(o, indent, format_expanded_array_header(0, delim))
        ELSE IF is_primitive_array_json(items)
        THEN line(o, indent, format_bracket_segment(len, delim) \o <<":", " ">>
                              \o InlineCellsJson(items, delim))
        ELSE EncodeListItemsJson(
                line(o, indent, format_expanded_array_header(len, delim)),
                items, 1, op, indent + op.indent)

\* MapSer state: the writer's text and the buffered entries (None or Some)
MapSer_new(o) == [o |-> o, buffered |-> None, entry_count |-> 0]

\* SerializeMap::serialize_key + serialize_value for one entry
MapSer_serialize_value(st, key, value, op, indent) ==
    IF op.key_folding = "Safe"
    THEN [st EXCEPT !.buffered = Some((IF st.buffered.some THEN st.buffered.v ELSE <<>>)
                                      \o <<KV(key, Invoke("to_value", <<value>>))>>),
                    !.entry_count = @ + 1]
    ELSE
    LET key_fmt == Invoke("format_key", <<key>>)
        sv == Invoke("try_scalar_to_string", <<value, op>>)
        val == Invoke("to_value", <<value>>)
    IN  IF sv.some
        THEN [st EXCEPT !.o = line_kv(st.o, indent, key_fmt, sv.v), !.entry_count = @ + 1]
        ELSE IF val.t = "arr"
        THEN [st EXCEPT !.o = Invoke("encode_keyed_array_json", <<st.o, key_fmt, val.a, op, indent>>),
                        !.entry_count = @ + 1]
        ELSE [st EXCEPT !.o = encode_object_field(st.o, key, val, op, indent),
                        !.entry_count = @ + 1]

RECURSIVE MapSer_entries(_, _, _, _, _)
MapSer_entries(st, entries, i, op, indent) ==
    IF i > Len(entries) THEN st
    ELSE Invoke("MapSer_entries", <<Invoke("MapSer_serialize_value", <<st, entries[i].k, entries[i].v, op, indent>>),
                        entries, i + 1, op, indent>>)

RECURSIVE FlushBuffered(_, _, _, _, _, _)
FlushBuffered(o, entries, i, op, indent, sibling_keys) ==
    IF i > Len(entries) THEN o
    ELSE FlushBuffered(
            encode_object_field_with_siblings(o, entries[i].k, entries[i].v, op, indent,
                                              sibling_keys),
            entries, i + 1, op, indent, sibling_keys)

\* SerializeMap::end: writes the buffered entries
MapSer_end(st, op, indent) ==
    IF st.buffered.some
    THEN FlushBuffered(st.o, st.buffered.v, 1, op, indent, Keys(st.buffered.v))
    ELSE st.o

\* SerializeStruct::end: returns Ok(()) and writes nothing
MapSer_struct_end(st, op, indent) == st.o

\* StreamingSerializer: what value.serialize(&mut ser) writes
StreamingSerializer_serialize(o, value, op, indent) ==
    CASE value.t = "null" -> line(o, indent, format_null)
      [] value.t = "bool" -> line(o, indent, format_bool(value.b))
      [] value.t = "num" ->
            IF IsIntegerNumber(value) THEN line(o, indent, IntegerText(value))
            ELSE IF value.k = "f64" THEN line(o, indent, Invoke("format_f64", <<value>>))
            ELSE line(o, indent, format_null)
      [] value.t = "str" -> line(o, indent, Invoke("format_string", <<value.s, op.delimiter>>))
      [] value.t = "arr" ->
            Invoke("SeqSer_end", <<o, [i \in 1..Len(value.a) |-> Invoke("to_value", <<value.a[i]>>)], op, indent>>)
      [] value.t = "obj" ->
            MapSer_end(Invoke("MapSer_entries", <<MapSer_new(o), value.o, 1, op, indent>>), op, indent)
      [] value.t = "struct" ->
            MapSer_struct_end(Invoke("MapSer_entries", <<MapSer_new(o), value.o, 1, op, indent>>), op, indent)

to_string_streaming(value, op) ==
    into_string(Invoke("StreamingSerializer_serialize", <<<<>>, value, op, 0>>))

\* lib.rs
encode_to_string(value, op) == to_string_streaming(value, op)

(***************************************************************************)
(* decode/scanner.rs                                                       *)
(***************************************************************************)
Blank == [k |-> "Blank"]

KeyValue(key, value) == [k |-> "KeyValue", key |-> key, value |-> value]

KeyOnly(key) == [k |-> "KeyOnly", key |-> key]

ListItem(value) == [k |-> "ListItem", value |-> value]

Scalar(s) == [k |-> "Scalar", s |-> s]

ParsedLine(indent, kind) == [indent |-> indent, kind |-> kind]

RECURSIVE leading_spaces(_)
leading_spaces(s) ==
    IF s /= <<>> /\ s[1] = " " THEN 1 + leading_spaces(Tail(s)) ELSE 0

\* The scan of find_unquoted_colon from position i with the flags in_str and
\* escape; 0 stands for None, otherwise the 1-based position of the colon.
RECURSIVE ColonScan(_, _, _, _)
ColonScan(b, i, in_str, escape) ==
    IF i > Len(b) THEN 0
    ELSE IF in_str
         THEN IF escape THEN ColonScan(b, i + 1, TRUE, FALSE)
              ELSE IF b[i] = "\\" THEN ColonScan(b, i + 1, TRUE, TRUE)
              ELSE IF b[i] = "\"" THEN ColonScan(b, i + 1, FALSE, FALSE)
              ELSE ColonScan(b, i + 1, TRUE, FALSE)
         ELSE IF b[i] = "\"" THEN ColonScan(b, i + 1, TRUE, escape)
              ELSE IF b[i] = ":" THEN i
              ELSE ColonScan(b, i + 1, FALSE, escape)

find_unquoted_colon(s) == ColonScan(s, 1, FALSE, FALSE)

\* memchr::memchr2(c1, c2, &b[i..]): the first position from i on holding c1
\* or c2, 0 for None
Memchr2(c1, c2, b, i) ==
    IF \E j \in i..Len(b) : b[j] \in {c1, c2}
    THEN CHOOSE j \in i..Len(b) : b[j] \in {c1, c2} /\ \A k \in i..(j - 1) : b[k] \notin {c1, c2}
    ELSE 0

\* find_unquoted_colon as built with the feature perf_memchr
RECURSIVE ColonScanMemchr(_, _, _, _)
ColonScanMemchr(b, i, in_str, escape) ==
    IF i > Len(b) THEN 0
    ELSE IF in_str
         THEN IF escape THEN ColonScanMemchr(b, i + 1, TRUE, FALSE)
              ELSE LET idx == Memchr2("\"", "\\", b, i)
                   IN  IF idx = 0 THEN 0
                       ELSE IF b[idx] = "\\" THEN ColonScanMemchr(b, idx + 1, TRUE, TRUE)
                       ELSE ColonScanMemchr(b, idx + 1, FALSE, escape)
         ELSE LET idx == Memchr2("\"", ":", b, i)
              IN  IF idx = 0 THEN 0
                  ELSE IF b[idx] = "\"" THEN ColonScanMemchr(b, idx + 1, TRUE, escape)
                  ELSE idx

\* the batch scan without the escape flag: a quote after a backslash closes
\* the quoted region
RECURSIVE ColonScanEscapeBlind(_, _, _)
ColonScanEscapeBlind(b, i, in_str) ==
    LET idx == IF in_str THEN Memchr2("\"", "\"", b, i) ELSE Memchr2("\"", ":", b, i)
    IN  IF i > Len(b) \/ idx = 0 THEN 0
        ELSE IF b[idx] = "\"" THEN ColonScanEscapeBlind(b, idx + 1, ~in_str)
        ELSE idx

FindColonEscapeBlind(s) == ColonScanEscapeBlind(s, 1, FALSE)

find_unquoted_colon_perf_memchr(s) == ColonScanMemchr(s, 1, FALSE, FALSE)

AsciiBlank == {" ", "\t"}

trim_ascii_start(s) == TrimStartSet(s, AsciiBlank)

trim_ascii(s) == TrimEndSet(TrimStartSet(s, AsciiBlank), AsciiBlank)

parse_line(ln) ==
    LET indent == leading_spaces(ln)
        body == Drop(ln, indent)
        idx == find_unquoted_colon(body)
        after == Drop(body, idx)
    IN  IF body = <<>> THEN ParsedLine(indent, Blank)
        ELSE IF StartsWith(body, <<"-", " ">>)
             THEN ParsedLine(indent, ListItem(Some(Drop(body, 2))))
        ELSE IF body = <<"-">> THEN ParsedLine(indent, ListItem(None))
        ELSE IF body[1] = "@" THEN ParsedLine(indent, Scalar(body))
        ELSE IF idx /= 0
             THEN IF trim_ascii(after) = <<>>
                  THEN ParsedLine(indent, KeyOnly(Take(body, idx - 1)))
                  ELSE ParsedLine(indent, KeyValue(Take(body, idx - 1), trim_ascii_start(after)))
        ELSE ParsedLine(indent, Scalar(body))

\* LineIter::next: the raw lines of the input, split at each line feed; a
\* final line feed does not start another line
RECURSIVE RawLines(_)
RawLines(rest) ==
    IF rest = <<>> THEN <<>>
    ELSE LET pos == IndexOfIn(rest, {"\n"})
         IN  IF pos = 0 THEN <<rest>>
             ELSE <<Take(rest, pos - 1)>> \o RawLines(Drop(rest, pos))

scan(in) == LET raw == RawLines(in) IN [i \in 1..Len(raw) |-> Invoke("parse_line", <<raw[i]>>)]

(***************************************************************************)
(* decode/validation.rs.  A result is None (Ok) or Some(error).            *)
(***************************************************************************)
SyntaxError(ln, message) == [line |-> ln, message |-> message]

\* validate_indentation: the loop from line idx with the previous non-blank
\* line's indent (None before the first)
RECURSIVE ValidateFrom(_, _, _)
ValidateFrom(lines, idx, prev_indent) ==
    IF idx > Len(lines) THEN None
    ELSE LET pl == lines[idx]
         IN  IF pl.kind.k = "Blank" THEN ValidateFrom(lines, idx + 1, prev_indent)
             ELSE IF prev_indent.some /\ pl.indent > prev_indent.v
                     /\ pl.indent /= prev_indent.v + 2
                  THEN Some(SyntaxError(idx, "indent increase must be +2"))
             ELSE IF prev_indent.some /\ pl.indent < prev_indent.v
                     /\ (prev_indent.v - pl.indent) % 2 /= 0
                  THEN Some(SyntaxError(idx, "indent decrease must be multiple of 2"))
             ELSE ValidateFrom(lines, idx + 1, Some(pl.indent))

validate_indentation(lines) == ValidateFrom(lines, 1, None)

LeadingWhitespaceHasTab(raw) ==
    \E i \in 1..Len(raw) : raw[i] = "\t" /\ \A j \in 1..(i - 1) : raw[j] \in {" ", "\t"}

RECURSIVE ValidateWithSizeFrom(_, _, _, _, _)
ValidateWithSizeFrom(lines, raw_lines, indent_size, idx, prev_indent) ==
    IF idx > Len(lines) THEN None
    ELSE LET pl == lines[idx]
         IN  IF pl.kind.k = "Blank"
             THEN ValidateWithSizeFrom(lines, raw_lines, indent_size, idx + 1, prev_indent)
             ELSE IF idx <= Len(raw_lines) /\ LeadingWhitespaceHasTab(raw_lines[idx])
                  THEN Some(SyntaxError(idx, "tab character used in indentation"))
             ELSE IF prev_indent.some /\ pl.indent > prev_indent.v
                     /\ pl.indent /= prev_indent.v + indent_size
                  THEN Some(SyntaxError(idx, "indent increase must be +size"))
             ELSE IF prev_indent.some /\ pl.indent < prev_indent.v
                     /\ (prev_indent.v - pl.indent) % indent_size /= 0
                  THEN Some(SyntaxError(idx, "indent decrease must be multiple of size"))
             ELSE ValidateWithSizeFrom(lines, raw_lines, indent_size, idx + 1, Some(pl.indent))

validate_indentation_with_size(lines, raw_lines, indent_size0) ==
    ValidateWithSizeFrom(lines, raw_lines, IF indent_size0 = 0 THEN 2 ELSE indent_size0, 1, None)

(***************************************************************************)
(* decode/parser.rs: tokens                                                *)
(***************************************************************************)
Ok(x) == [ok |-> TRUE, v |-> x]

Err(e) == [ok |-> FALSE, e |-> e]

hex_val(c) ==
    IF c \in DigitSet THEN Some(DigitVal(c))
    ELSE IF \E i \in 11..16 : HexDigits[i] = c
         THEN Some((CHOOSE i \in 11..16 : HexDigits[i] = c) - 1)
    ELSE IF \E i \in 11..16 : ToLower(HexDigits[i]) = c
         THEN Some((CHOOSE i \in 11..16 : ToLower(HexDigits[i]) = c) - 1)
    ELSE None

\* the loop of try_unescape_json_string over `inner` from position i
RECURSIVE UnescapeFrom(_, _, _)
UnescapeFrom(inner, i, acc) ==
    IF i > Len(inner) THEN Ok(acc)
    ELSE IF inner[i] /= "\\" THEN UnescapeFrom(inner, i + 1, Append(acc, inner[i]))
    ELSE IF i + 1 > Len(inner) THEN Err("InvalidEscape")
    ELSE LET e == inner[i + 1]
         IN  CASE e = "\"" -> UnescapeFrom(inner, i + 2, Append(acc, "\""))
               [] e = "\\" -> UnescapeFrom(inner, i + 2, Append(acc, "\\"))
               [] e = "/" -> UnescapeFrom(inner, i + 2, Append(acc, "/"))
               [] e = "b" -> UnescapeFrom(inner, i + 2, Append(acc, BS))
               [] e = "f" -> UnescapeFrom(inner, i + 2, Append(acc, "\f"))
               [] e = "n" -> UnescapeFrom(inner, i + 2, Append(acc, "\n"))
               [] e = "r" -> UnescapeFrom(inner, i + 2, Append(acc, "\r"))
               [] e = "t" -> UnescapeFrom(inner, i + 2, Append(acc, "\t"))
               [] e = "u" ->
                     IF i + 5 > Len(inner) THEN Err("InvalidEscape")
                     ELSE IF \E j \in 2..5 : ~hex_val(inner[i + j]).some
                          THEN Err("InvalidEscape")
                     ELSE LET code == hex_val(inner[i + 2]).v * 4096
                                      + hex_val(inner[i + 3]).v * 256
                                      + hex_val(inner[i + 4]).v * 16
                                      + hex_val(inner[i + 5]).v
                          IN  IF 55296 <= code /\ code <= 57343 THEN Err("InvalidEscape")
                              ELSE UnescapeFrom(inner, i + 6, Append(acc, CodeChar(code)))
               [] OTHER -> Err("InvalidEscape")

try_unescape_json_string(s) ==
    IF s = <<>> \/ s[1] /= "\"" THEN Err("Unterminated")
    ELSE IF Len(s) < 2 \/ s[Len(s)] /= "\"" THEN Err("Unterminated")
    ELSE UnescapeFrom(SubSeq(s, 2, Len(s) - 1), 1, <<>>)

\* the loop of classify_numeric_hint: TRUE when every byte is accepted
RECURSIVE HintScan(_, _, _, _)
HintScan(b, i, has_exp, in_exponent) ==
    IF i > Len(b) THEN TRUE
    ELSE IF b[i] \in DigitSet THEN HintScan(b, i + 1, has_exp, in_exponent)
    ELSE IF b[i] = "." THEN (IF in_exponent THEN FALSE ELSE HintScan(b, i + 1, has_exp, FALSE))
    ELSE IF b[i] \in {"e", "E"} THEN (IF has_exp THEN FALSE ELSE HintScan(b, i + 1, TRUE, TRUE))
    ELSE IF b[i] \in {"-", "+"}
         THEN (IF ~in_exponent THEN FALSE ELSE HintScan(b, i + 1, has_exp, FALSE))
    ELSE FALSE

\* "None", "Float", "IntSigned" or "IntUnsigned"
classify_numeric_hint(s) ==
    IF s = <<>> THEN "None"
    ELSE IF s[1] = "\"" THEN "None"
    ELSE LET i == IF s[1] \in {"-", "+"} THEN 1 ELSE 0
             body == Drop(s, i)
         IN  IF body = <<>> THEN "None"
             ELSE IF ~HintScan(body, 1, FALSE, FALSE) THEN "None"
             ELSE IF Contains(body, ".") \/ Contains(body, "e") \/ Contains(body, "E")
                  THEN "Float"
             ELSE IF s[1] = "-" THEN "IntSigned"
             ELSE "IntUnsigned"

\* Integers are kept exact up to nine decimal digits, which is within every
\* Rust integer width used by the decoder.
MaxIntDigits == 9

TrimLeadingZeros(d) ==
    LET t == TrimStartSet(d, {"0"}) IN IF t = <<>> THEN <<"0">> ELSE t

\* str::parse::<u64>: Some(n) or None
ParseU64(s) ==
    LET d == IF s /= <<>> /\ s[1] = "+" THEN Tail(s) ELSE s
    IN  IF d /= <<>> /\ AllDigits(d) /\ Len(TrimLeadingZeros(d)) <= MaxIntDigits
        THEN Some(StrToNat(d)) ELSE None

\* str::parse::<i64>: Some(n) or None
ParseI64(s) ==
    LET neg == s /= <<>> /\ s[1] = "-"
        d == IF s /= <<>> /\ s[1] \in {"+", "-"} THEN Tail(s) ELSE s
    IN  IF d /= <<>> /\ AllDigits(d) /\ Len(TrimLeadingZeros(d)) <= MaxIntDigits
        THEN Some(IF neg THEN -StrToNat(d) ELSE StrToNat(d)) ELSE None

\* str::parse::<f64> of a decimal literal: Some(F64) with the digits
\* normalised (no trailing zero in m), or None when the text is not a float
RECURSIVE NormF64(_, _, _)
NormF64(neg, m, e) ==
    IF m = 0 THEN F64(neg, 0, 0)
    ELSE IF m % 10 = 0 THEN NormF64(neg, m \div 10, e + 1)
    ELSE F64(neg, m, e)

ParseF64(s) ==
    IF ~ParsesAsF64(s) THEN None
    ELSE
    LET neg == s[1] = "-"
        u == IF s[1] \in {"+", "-"} THEN Tail(s) ELSE s
        ei == IndexOfIn(u, {"e", "E"})
        mant == IF ei = 0 THEN u ELSE Take(u, ei - 1)
        ex == IF ei = 0 THEN 0 ELSE ParseI32Or0(Drop(u, ei))
        dot == IndexOfIn(mant, {"."})
        ip == IF dot = 0 THEN mant ELSE Take(mant, dot - 1)
        fp == IF dot = 0 THEN <<>> ELSE Drop(mant, dot)
    IN  IF LowerStr(u) \in {<<"i","n","f">>, <<"i","n","f","i","n","i","t","y">>}
        THEN Some(NonFinite(IF neg THEN "-Infinity" ELSE "Infinity"))
        ELSE IF LowerStr(u) = <<"n","a","n">> THEN Some(NonFinite("NaN"))
        ELSE LET digits == TrimLeadingZeros(ip \o fp)
                 significant == TrimEndSet(digits, {"0"})
             IN  Some(NormF64(neg, StrToNat(significant),
                              ex - Len(fp) + (Len(digits) - Len(significant))))

Pow10(n) == IF n = 0 THEN 1 ELSE IF n = 1 THEN 10 ELSE IF n = 2 THEN 100
            ELSE IF n = 3 THEN 1000 ELSE IF n = 4 THEN 10000 ELSE IF n = 5 THEN 100000
            ELSE IF n = 6 THEN 1000000 ELSE IF n = 7 THEN 10000000 ELSE 100000000

\* f.is_finite() && f % 1.0 == 0.0
IsIntegerValued(f) == f.k = "f64" /\ f.e >= 0

\* a < b for digit strings without leading zeros
RECURSIVE DigitsLess(_, _)
DigitsLess(a, b) ==
    IF Len(a) /= Len(b) THEN Len(a) < Len(b)
    ELSE IF a = <<>> THEN FALSE
    ELSE IF a[1] /= b[1] THEN StrToNat(<<a[1]>>) < StrToNat(<<b[1]>>)
    ELSE DigitsLess(Tail(a), Tail(b))

\* `f as u64` (f >= 0.0) / `f as i64` (f < 0.0) of an integer-valued double:
\* the cast saturates at the bounds of the target type
CastToInt(f) ==
    IF f.m = 0 THEN Integer(0)
    ELSE IF Len(NatToStr(f.m)) + f.e <= MaxIntDigits
         THEN Integer(IF f.neg THEN -(f.m * Pow10(f.e)) ELSE f.m * Pow10(f.e))
    ELSE IF DigitsLess(IF f.neg THEN I64_MIN ELSE U64_MAX,
                       NatToStr(f.m) \o Repeat("0", f.e))
         THEN Saturated(f.neg)
    ELSE BigInteger(f.neg, f.m, f.e)

\* an integer literal of more than MaxIntDigits digits that fits the target
\* type: the bound of the type itself, or Some(BigInteger) when its
\* significant digits fit, None otherwise
ParseBigInteger(d, neg, limit) ==
    LET t == TrimLeadingZeros(d)
        significant == TrimEndSet(t, {"0"})
    IN  IF d /= <<>> /\ AllDigits(d) /\ t = limit THEN Some(Saturated(neg))
        ELSE IF d /= <<>> /\ AllDigits(d) /\ Len(t) > MaxIntDigits /\ ~DigitsLess(limit, t)
           /\ Len(significant) <= MaxIntDigits
        THEN Some(BigInteger(neg, StrToNat(significant), Len(t) - Len(significant)))
        ELSE None

\* s.parse::<u64>() as a Number::U64
U64Token(s) ==
    LET u == Invoke("ParseU64", <<s>>)
    IN  IF u.some THEN Some(Integer(u.v))
        ELSE ParseBigInteger(IF s /= <<>> /\ s[1] = "+" THEN Tail(s) ELSE s, FALSE, U64_MAX)

\* s.parse::<i64>() as a Number::I64
I64Token(s) ==
    LET i == Invoke("ParseI64", <<s>>)
    IN  IF i.some THEN Some(Integer(i.v))
        ELSE IF s /= <<>> /\ s[1] = "-" THEN ParseBigInteger(Tail(s), TRUE, I64_MIN)
        ELSE None

(***************************************************************************)
(* decode/parser.rs: headers and splitting.  Positions are 1-based; 0      *)
(* stands for None.                                                        *)
(***************************************************************************)
\* legacy "@<delim> fields" header: None or Some([dch, rest])
parse_header(s) ==
    IF s = <<>> \/ s[1] /= "@" THEN None
    ELSE IF Len(s) < 2 THEN None
    ELSE Some([dch |-> s[2], rest |-> trim_ascii_start(Drop(s, 2))])

RECURSIVE BracketScan(_, _, _, _)
BracketScan(b, i, in_quote, escape) ==
    IF i > Len(b) THEN 0
    ELSE IF escape THEN BracketScan(b, i + 1, in_quote, FALSE)
    ELSE IF in_quote
         THEN IF b[i] = "\\" THEN BracketScan(b, i + 1, TRUE, TRUE)
              ELSE IF b[i] = "\"" THEN BracketScan(b, i + 1, FALSE, FALSE)
              ELSE BracketScan(b, i + 1, TRUE, FALSE)
    ELSE IF b[i] = "\"" THEN BracketScan(b, i + 1, TRUE, FALSE)
    ELSE IF b[i] = "[" THEN i
    ELSE BracketScan(b, i + 1, FALSE, FALSE)

find_unquoted_bracket(s) == BracketScan(s, 1, FALSE, FALSE)

RECURSIVE MatchBracketScan(_, _, _)
MatchBracketScan(b, i, depth) ==
    IF i > Len(b) THEN 0
    ELSE IF b[i] = "[" THEN MatchBracketScan(b, i + 1, depth + 1)
    ELSE IF b[i] = "]"
         THEN (IF depth - 1 = 0 THEN i ELSE MatchBracketScan(b, i + 1, depth - 1))
    ELSE MatchBracketScan(b, i + 1, depth)

find_matching_bracket(s, start) ==
    IF start > Len(s) \/ start < 1 THEN 0
    ELSE IF s[start] /= "[" THEN 0
    ELSE MatchBracketScan(s, start, 0)

RECURSIVE MatchBraceScan(_, _, _, _, _)
MatchBraceScan(b, i, depth, in_quote, escape) ==
    IF i > Len(b) THEN 0
    ELSE IF escape THEN MatchBraceScan(b, i + 1, depth, in_quote, FALSE)
    ELSE IF in_quote
         THEN IF b[i] = "\\" THEN MatchBraceScan(b, i + 1, depth, TRUE, TRUE)
              ELSE IF b[i] = "\"" THEN MatchBraceScan(b, i + 1, depth, FALSE, FALSE)
              ELSE MatchBraceScan(b, i + 1, depth, TRUE, FALSE)
    ELSE IF b[i] = "\"" THEN MatchBraceScan(b, i + 1, depth, TRUE, FALSE)
    ELSE IF b[i] = "{" THEN MatchBraceScan(b, i + 1, depth + 1, FALSE, FALSE)
    ELSE IF b[i] = "}"
         THEN (IF depth - 1 = 0 THEN i ELSE MatchBraceScan(b, i + 1, depth - 1, FALSE, FALSE))
    ELSE MatchBraceScan(b, i + 1, depth, FALSE, FALSE)

find_matching_brace(s, start) ==
    IF start > Len(s) \/ start < 1 THEN 0
    ELSE IF s[start] /= "{" THEN 0
    ELSE MatchBraceScan(s, start, 0, FALSE, FALSE)

\* str::parse::<usize>
ParseUsize(s) == Invoke("ParseU64", <<s>>)

trim_spaces_only(s) == TrimEndSet(TrimStartSet(s, {" "}), {" "})

\* None or Some([length, delimiter])
parse_bracket_content(s0) ==
    LET s == trim_spaces_only(s0)
        last == s[Len(s)]
    IN  IF s = <<>> THEN None
        ELSE IF last = "\t" \/ last = "|"
             THEN LET n == ParseUsize(StrTrim(Take(s, Len(s) - 1)))
                  IN  IF n.some THEN Some([length |-> n.v, delimiter |-> last]) ELSE None
        ELSE LET n == ParseUsize(s)
             IN  IF n.some THEN Some([length |-> n.v, delimiter |-> ","]) ELSE None

\* unquoted occurrences of the character c in s
RECURSIVE CountUnquoted(_, _, _, _, _)
CountUnquoted(b, i, c, in_quote, escape) ==
    IF i > Len(b) THEN 0
    ELSE IF escape THEN CountUnquoted(b, i + 1, c, in_quote, FALSE)
    ELSE IF in_quote
         THEN IF b[i] = "\\" THEN CountUnquoted(b, i + 1, c, TRUE, TRUE)
              ELSE IF b[i] = "\"" THEN CountUnquoted(b, i + 1, c, FALSE, FALSE)
              ELSE CountUnquoted(b, i + 1, c, TRUE, FALSE)
    ELSE IF b[i] = "\"" THEN CountUnquoted(b, i + 1, c, TRUE, FALSE)
    ELSE (IF b[i] = c THEN 1 ELSE 0) + CountUnquoted(b, i + 1, c, FALSE, FALSE)

check_delimiter_mismatch(s, declared) ==
    LET comma_count == CountUnquoted(s, 1, ",", FALSE, FALSE)
        tab_count == CountUnquoted(s, 1, "\t", FALSE, FALSE)
        pipe_count == CountUnquoted(s, 1, "|", FALSE, FALSE)
    IN  CASE declared = "," -> (tab_count > 0 \/ pipe_count > 0) /\ comma_count = 0
          [] declared = "\t" -> comma_count > 0 /\ tab_count = 0
          [] declared = "|" -> (comma_count > 0 \/ tab_count > 0) /\ pipe_count = 0
          [] OTHER -> FALSE

\* the loop of split_delim_aware from position i; `start` is the 1-based
\* position of the first character of the current token
RECURSIVE SplitScan(_, _, _, _, _, _, _)
SplitScan(s, dch, i, start, in_str, escape, acc) ==
    IF i > Len(s) THEN Append(acc, trim_ascii(SubSeq(s, start, Len(s))))
    ELSE IF in_str
         THEN IF escape THEN SplitScan(s, dch, i + 1, start, TRUE, FALSE, acc)
              ELSE IF s[i] = "\\" THEN SplitScan(s, dch, i + 1, start, TRUE, TRUE, acc)
              ELSE IF s[i] = "\"" THEN SplitScan(s, dch, i + 1, start, FALSE, FALSE, acc)
              ELSE SplitScan(s, dch, i + 1, start, TRUE, FALSE, acc)
    ELSE IF s[i] = "\"" THEN SplitScan(s, dch, i + 1, start, TRUE, escape, acc)
    ELSE IF s[i] = dch
         THEN SplitScan(s, dch, i + 1, i + 1, FALSE, escape,
                        Append(acc, trim_ascii(SubSeq(s, start, i - 1))))
    ELSE SplitScan(s, dch, i + 1, start, FALSE, escape, acc)

split_delim_aware(s, dch) == SplitScan(s, dch, 1, 1, FALSE, FALSE, <<>>)

\* split_delim_aware as built with the feature perf_memchr
RECURSIVE SplitScanMemchr(_, _, _, _, _, _, _)
SplitScanMemchr(s, dch, i, start, in_str, escape, acc) ==
    IF i > Len(s) THEN Append(acc, trim_ascii(SubSeq(s, start, Len(s))))
    ELSE IF in_str
         THEN IF escape THEN SplitScanMemchr(s, dch, i + 1, start, TRUE, FALSE, acc)
              ELSE LET idx == Memchr2("\"", "\\", s, i)
                   IN  IF idx = 0 THEN Append(acc, trim_ascii(SubSeq(s, start, Len(s))))
                       ELSE IF s[idx] = "\\"
                            THEN SplitScanMemchr(s, dch, idx + 1, start, TRUE, TRUE, acc)
                       ELSE SplitScanMemchr(s, dch, idx + 1, start, FALSE, escape, acc)
    ELSE LET idx == Memchr2("\"", dch, s, i)
         IN  IF idx = 0 THEN Append(acc, trim_ascii(SubSeq(s, start, Len(s))))
             ELSE IF s[idx] = "\""
                  THEN SplitScanMemchr(s, dch, idx + 1, start, TRUE, escape, acc)
             ELSE SplitScanMemchr(s, dch, idx + 1, idx + 1, FALSE, escape,
                                  Append(acc, trim_ascii(SubSeq(s, start, idx - 1))))

split_delim_aware_perf_memchr(s, dch) == SplitScanMemchr(s, dch, 1, 1, FALSE, FALSE, <<>>)

\* de/direct.rs split_delim_aware: tokens are trimmed with str::trim and an
\* empty token is not pushed
RECURSIVE DirectSplitScan(_, _, _, _, _, _, _)
DirectSplitScan(s, dch, i, start, in_str, escape, acc) ==
    IF i > Len(s)
    THEN IF start <= Len(s) /\ StrTrim(SubSeq(s, start, Len(s))) /= <<>>
         THEN Append(acc, StrTrim(SubSeq(s, start, Len(s)))) ELSE acc
    ELSE IF in_str
         THEN IF escape THEN DirectSplitScan(s, dch, i + 1, start, TRUE, FALSE, acc)
              ELSE IF s[i] = "\\" THEN DirectSplitScan(s, dch, i + 1, start, TRUE, TRUE, acc)
              ELSE IF s[i] = "\"" THEN DirectSplitScan(s, dch, i + 1, start, FALSE, FALSE, acc)
              ELSE DirectSplitScan(s, dch, i + 1, start, TRUE, FALSE, acc)
    ELSE IF s[i] = "\"" THEN DirectSplitScan(s, dch, i + 1, start, TRUE, escape, acc)
    ELSE IF s[i] = dch
         THEN DirectSplitScan(s, dch, i + 1, i + 1, FALSE, escape,
                              IF StrTrim(SubSeq(s, start, i - 1)) /= <<>>
                              THEN Append(acc, StrTrim(SubSeq(s, start, i - 1))) ELSE acc)
    ELSE DirectSplitScan(s, dch, i + 1, start, FALSE, escape, acc)

direct_split_delim_aware(s, dch) == DirectSplitScan(s, dch, 1, 1, FALSE, FALSE, <<>>)

\* the loop of split_kv_quote_aware: position of the first unquoted colon
RECURSIVE KvScan(_, _, _, _)
KvScan(b, i, in_str, escape) ==
    IF i > Len(b) THEN 0
    ELSE IF in_str
         THEN IF escape THEN KvScan(b, i + 1, TRUE, FALSE)
              ELSE IF b[i] = "\\" THEN KvScan(b, i + 1, TRUE, TRUE)
              ELSE IF b[i] = "\"" THEN KvScan(b, i + 1, FALSE, FALSE)
              ELSE KvScan(b, i + 1, TRUE, FALSE)
    ELSE IF b[i] = "\"" THEN KvScan(b, i + 1, TRUE, escape)
    ELSE IF b[i] = ":" THEN i
    ELSE KvScan(b, i + 1, FALSE, escape)

\* None or Some([key, val])
split_kv_quote_aware(s) ==
    LET i == KvScan(s, 1, FALSE, FALSE)
    IN  IF i = 0 THEN None
        ELSE Some([key |-> trim_ascii(Take(s, i - 1)),
                   val |-> IF i < Len(s) THEN trim_ascii_start(Drop(s, i)) ELSE <<>>])

is_quoted_token(s) ==
    LET t == trim_ascii(s)
    IN  Len(t) >= 2 /\ t[1] = "\"" /\ t[Len(t)] = "\""

token_requires_quotes(s, dch) ==
    needs_quotes(s, CASE dch = "," -> "Comma" [] dch = "\t" -> "Tab"
                      [] dch = "|" -> "Pipe" [] OTHER -> "Comma")

is_control_char(c) == c \in ControlSet

cell_token_requires_quotes(s, dch) ==
    LET t == trim_ascii(s)
    IN  \/ s = <<>>
        \/ t = <<>>
        \/ Contains(t, dch)
        \/ Contains(t, ":")
        \/ \E i \in 1..Len(t) : t[i] = "\"" \/ t[i] = "\\" \/ is_control_char(t[i])
        \/ t[1] = " " \/ t[Len(t)] = " "
        \/ t = <<"-">>
        \/ (t[1] = "-" /\ ~ParsesAsF64(t))
        \/ t[1] = "+"

ArrayHeader(key, length, delimiter, fields, inline_values, fields_delimiter_mismatch) ==
    [key |-> key, length |-> length, delimiter |-> delimiter, fields |-> fields,
     inline_values |-> inline_values, fields_delimiter_mismatch |-> fields_delimiter_mismatch]

\* None or Some(ArrayHeader)
parse_array_header(s) ==
    LET bracket_start == find_unquoted_bracket(s)
        bracket_end == find_matching_bracket(s, bracket_start)
        key_part == trim_ascii(Take(s, bracket_start - 1))
        key == IF key_part = <<>> THEN None ELSE Some(key_part)
        bc == parse_bracket_content(SubSeq(s, bracket_start + 1, bracket_end - 1))
        after_bracket == Drop(s, bracket_end)
        has_fields == after_bracket /= <<>> /\ after_bracket[1] = "{"
        fields_end == find_matching_brace(after_bracket, 1)
        fields_content == SubSeq(after_bracket, 2, fields_end - 1)
        rest_after_fields == IF has_fields THEN Drop(after_bracket, fields_end)
                             ELSE after_bracket
        after_colon == Tail(rest_after_fields)
    IN  IF bracket_start = 0 THEN None
        ELSE IF bracket_end = 0 THEN None
        ELSE IF ~bc.some THEN None
        ELSE IF has_fields /\ fields_end = 0 THEN None
        ELSE IF rest_after_fields = <<>> \/ rest_after_fields[1] /= ":" THEN None
        ELSE Some(ArrayHeader(
                key, bc.v.length, bc.v.delimiter,
                IF has_fields THEN Some(Invoke("split_delim_aware", <<fields_content, bc.v.delimiter>>))
                ELSE None,
                IF after_colon = <<>> THEN None ELSE Some(trim_ascii_start(after_colon)),
                has_fields /\ check_delimiter_mismatch(fields_content, bc.v.delimiter)))

parse_scalar_keyed_array_header(s) ==
    LET bracket_start == find_unquoted_bracket(s)
        bracket_end == find_matching_bracket(s, bracket_start)
        has_fields == bracket_end + 1 <= Len(s) /\ s[bracket_end + 1] = "{"
        fields_end == find_matching_brace(s, bracket_end + 1)
        pos == IF has_fields THEN fields_end ELSE bracket_end
    IN  IF bracket_start = 0 THEN None
        ELSE IF bracket_end = 0 THEN None
        ELSE IF has_fields /\ fields_end = 0 THEN None
        ELSE Invoke("parse_array_header", <<Take(s, pos) \o <<":">> \o Drop(s, pos)>>)

is_array_header_line(s) ==
    LET bracket_start == find_unquoted_bracket(s)
        bracket_end == find_matching_bracket(s, bracket_start)
        content == StrTrim(SubSeq(s, bracket_start + 1, bracket_end - 1))
        pos == IF \E i \in 1..Len(content) : content[i] \notin DigitSet
               THEN CHOOSE i \in 1..Len(content) :
                       content[i] \notin DigitSet
                       /\ \A j \in 1..(i - 1) : content[j] \in DigitSet
               ELSE 0
    IN  IF bracket_start = 0 THEN FALSE
        ELSE IF bracket_end = 0 THEN FALSE
        ELSE IF content = <<>> THEN FALSE
        ELSE IF pos = 0 THEN ParseUsize(content).some
        ELSE IF pos = Len(content)
             THEN content[pos] \in {"\t", "|"} /\ ParseUsize(Take(content, pos - 1)).some
        ELSE FALSE

(***************************************************************************)
(* decode/parser.rs: Parser.  `trace` lists every value the `error` field  *)
(* has been assigned, in order; `error` is the field itself.  `cursor`     *)
(* lists every assignment to the `idx` field ("set", from prev to idx) and *)
(* every arrival at the top of a parsing loop ("iter", with idx as it is   *)
(* there and prev the idx at the top of the round before, -1 on entry).    *)
(***************************************************************************)
Parser_from_input_with_strict(in, strict) ==
    [lines |-> Invoke("scan", <<in>>), idx |-> 0, strict |-> strict, error |-> None, trace |-> <<>>,
     cursor |-> <<>>]

\* self.error = Some(..)
SetError(p, ln, message) ==
    [p EXCEPT !.error = Some(SyntaxError(ln, message)),
              !.trace = Append(@, SyntaxError(ln, message))]

\* if self.error.is_none() { self.error = Some(..) }
SetErrorIfNone(p, ln, message) == IF p.error.some THEN p ELSE SetError(p, ln, message)

\* if cond { self.error = Some(..) }
ErrorIf(p, cond, ln, message) == IF cond THEN SetError(p, ln, message) ELSE p

\* if cond && self.error.is_none() { self.error = Some(..) }
ErrorIfNone(p, cond, ln, message) ==
    IF cond /\ ~p.error.some THEN SetError(p, ln, message) ELSE p

\* self.idx = i
SetIdx(p, i) ==
    [p EXCEPT !.idx = i,
              !.cursor = Append(@, [ev |-> "set", loop |-> "", prev |-> p.idx, idx |-> i])]

\* the top of one round of a parsing loop
Iter(p, loop, prev) ==
    [p EXCEPT !.cursor = Append(@, [ev |-> "iter", loop |-> loop, prev |-> prev, idx |-> p.idx])]

\* self.idx += 1 that moves back to the first line once, on leaving the second
AdvanceRewindOnce(p) ==
    IF p.idx = 1 /\ \A i \in 1..Len(p.cursor) : p.cursor[i].idx >= p.cursor[i].prev
    THEN SetIdx(p, 0)
    ELSE SetIdx(p, p.idx + 1)

\* self.next(), self.idx += 1
Advance(p) == SetIdx(p, p.idx + 1)

\* a function result: the parser after the call and the value returned
Ret(p, v) == [p |-> p, v |-> v]

\* self.lines.get(i) with the 0-based index i
HasLine(p, i) == i >= 0 /\ i < Len(p.lines)

LineAt(p, i) == p.lines[i + 1]

RECURSIVE skip_blanks(_)
skip_blanks(p) ==
    IF HasLine(p, p.idx) /\ LineAt(p, p.idx).kind.k = "Blank"
    THEN skip_blanks(Advance(p))
    ELSE p

StringParseMessage(e) ==
    IF e = "Unterminated" THEN "unterminated string" ELSE "invalid escape sequence"

parse_scalar_token_at_line(p, s, line_no) ==
    LET un == Invoke("try_unescape_json_string", <<s>>)
        hint == Invoke("classify_numeric_hint", <<s>>)
        f == Invoke("ParseF64", <<s>>)
        i == Invoke("I64Token", <<s>>)
        u == Invoke("U64Token", <<s>>)
    IN  IF s /= <<>> /\ s[1] = "\""
        THEN IF un.ok THEN Ret(p, Str(un.v))
             ELSE Ret(SetErrorIfNone(p, line_no, StringParseMessage(un.e)), Str(<<>>))
        ELSE IF Invoke("has_forbidden_leading_zeros", <<s>>) THEN Ret(p, Str(s))
        ELSE IF s = <<"t","r","u","e">> THEN Ret(p, Bool(TRUE))
        ELSE IF s = <<"f","a","l","s","e">> THEN Ret(p, Bool(FALSE))
        ELSE IF s = <<"n","u","l","l">> THEN Ret(p, Null)
        ELSE IF s /= <<>> /\ s[1] = "-" /\ Len(s) > 1 /\ AllDigits(Tail(s)) /\ i.some
             THEN Ret(p, i.v)
        ELSE IF s /= <<>> /\ s[1] /= "-" /\ AllDigits(s) /\ u.some
             THEN Ret(p, u.v)
        ELSE IF hint = "Float" /\ f.some
             THEN IF IsIntegerValued(f.v) THEN Ret(p, CastToInt(f.v)) ELSE Ret(p, f.v)
        ELSE IF hint = "IntSigned" /\ i.some THEN Ret(p, i.v)
        ELSE IF hint = "IntSigned" /\ f.some THEN Ret(p, f.v)
        ELSE IF hint = "IntUnsigned" /\ u.some THEN Ret(p, u.v)
        ELSE IF hint = "IntUnsigned" /\ f.some THEN Ret(p, f.v)
        ELSE Ret(p, Str(s))

parse_scalar_token(p, s) == parse_scalar_token_at_line(p, s, p.idx)

parse_key_token_at_line(p, k, line_no) ==
    LET un == Invoke("try_unescape_json_string", <<k>>)
    IN  IF k /= <<>> /\ k[1] = "\""
        THEN IF un.ok
             THEN (IF Contains(un.v, ".") THEN Ret(p, <<ZWSP>> \o un.v) ELSE Ret(p, un.v))
             ELSE Ret(SetErrorIfNone(p, line_no, StringParseMessage(un.e)), <<>>)
        ELSE Ret(p, k)

parse_key_token(p, k) == parse_key_token_at_line(p, k, p.idx)

\* tokens.iter().map(|h| self.parse_key_token(h)).collect()
RECURSIVE MapKeyTokens(_, _, _, _)
MapKeyTokens(p, toks, i, acc) ==
    IF i > Len(toks) THEN Ret(p, acc)
    ELSE LET r == Invoke("parse_key_token", <<p, toks[i]>>)
         IN  MapKeyTokens(r.p, toks, i + 1, Append(acc, r.v))

\* values.into_iter().map(|v| self.parse_scalar_token(v)).collect()
RECURSIVE MapScalarTokens(_, _, _, _)
MapScalarTokens(p, toks, i, acc) ==
    IF i > Len(toks) THEN Ret(p, acc)
    ELSE LET r == Invoke("parse_scalar_token", <<p, toks[i]>>)
         IN  MapScalarTokens(r.p, toks, i + 1, Append(acc, r.v))

\* for i in 0..n { for j in i+1..n { if keys[i] == keys[j] { self.error = ..; break } } }
RECURSIVE DuplicateKeyLoop(_, _, _, _)
DuplicateKeyLoop(p, keys, i, message) ==
    IF i > Len(keys) THEN p
    ELSE IF \E j \in (i + 1)..Len(keys) : keys[i] = keys[j]
         THEN DuplicateKeyLoop(SetError(p, p.idx, message), keys, i + 1, message)
         ELSE DuplicateKeyLoop(p, keys, i + 1, message)

\* for (i, hk) in header_keys { om.push((hk, parse_scalar_token(cells.get(i) or "null"))) }
RECURSIVE LegacyRowObject(_, _, _, _, _)
LegacyRowObject(p, header_keys, cells, i, om) ==
    IF i > Len(header_keys) THEN Ret(p, Obj(om))
    ELSE LET cell == IF i <= Len(cells) THEN cells[i] ELSE <<"n","u","l","l">>
             r == Invoke("parse_scalar_token", <<p, cell>>)
         IN  LegacyRowObject(r.p, header_keys, cells, i + 1,
                             Append(om, KV(header_keys[i], r.v)))

\* one round of the row loop below a legacy "@" header, entered after skip_blanks;
\* strict and idx are read from p2 throughout: strict is never reassigned and the
\* checks do not move idx past the consumed row
RECURSIVE LegacyRows(_, _, _, _, _, _)
LegacyRow(p2, dch, header_keys, row_indent, rows, start) ==
    LET rowl == LineAt(p2, p2.idx)
        rs == rowl.kind.value.v
        row_line == p2.idx + 1
        row_trimmed == TrimEndSet(rs, WhiteSet)
        cells == Invoke("split_delim_aware", <<rs, dch>>)
        p4 == ErrorIf(Advance(p2),
                      p2.strict /\ row_trimmed /= <<>> /\ row_trimmed[Len(row_trimmed)] = dch,
                      row_line, "trailing delimiter in row")
        p5 == ErrorIfNone(p4, p2.strict /\ Len(cells) /= Len(header_keys),
                          row_line, "row cell count does not match header")
        p6 == ErrorIfNone(p5,
                          p2.strict /\ \E i \in 1..Len(cells) :
                                          ~is_quoted_token(cells[i])
                                          /\ cell_token_requires_quotes(cells[i], dch),
                          row_line, "unquoted cell requires quotes")
        r == LegacyRowObject(p6, header_keys, cells, 1, <<>>)
    IN  IF ~HasLine(p2, p2.idx) THEN Ret(p2, rows)
        ELSE IF rowl.indent /= row_indent THEN Ret(p2, rows)
        ELSE IF ~(rowl.kind.k = "ListItem" /\ rowl.kind.value.some) THEN Ret(p2, rows)
        ELSE LegacyRows(r.p, dch, header_keys, row_indent, Append(rows, r.v), start)

\* the row loop below a legacy "@" header
LegacyRows(p0, dch, header_keys, row_indent, rows, prev) ==
    LegacyRow(skip_blanks(ErrorIf(Iter(p0, "legacy_rows", prev),
                                  p0.strict /\ HasLine(p0, p0.idx)
                                  /\ LineAt(p0, p0.idx).kind.k = "Blank",
                                  p0.idx + 1, "blank line inside table")),
              dch, header_keys, row_indent, rows, p0.idx)

\* the strict checks on a legacy header, its rows and the check for an empty table
LegacyTableRows(p2, header_keys, raw_header_tokens, dch, row_indent) ==
    LET p3 == ErrorIf(p2, p2.strict /\ header_keys = <<>>, p2.idx, "empty tabular header")
        p4 == ErrorIf(p3,
                      p2.strict /\ \E i \in 1..Len(raw_header_tokens) :
                                      ~is_quoted_token(raw_header_tokens[i])
                                      /\ token_requires_quotes(raw_header_tokens[i], dch),
                      p2.idx, "unquoted header token requires quotes")
        p5 == IF p2.strict THEN DuplicateKeyLoop(p4, header_keys, 1, "duplicate header key")
              ELSE p4
        rr == LegacyRows(p5, dch, header_keys, row_indent, <<>>, -1)
    IN  Ret(ErrorIf(rr.p, rr.p.strict /\ rr.v = <<>>, rr.p.idx, "empty table (no rows)"),
            Arr(rr.v))

\* the body shared by parse_object and parse_scalar_line once parse_header has
\* recognised a legacy "@<delim> fields" header at the current line
LegacyTable(p0, dch, header_str, row_indent) ==
    LET raw_header_tokens == Invoke("split_delim_aware", <<header_str, dch>>)
        p1 == ErrorIf(p0, p0.strict /\ dch \notin {",", "\t", "|"},
                      p0.idx + 1, "invalid header delimiter")
        hk == MapKeyTokens(Advance(p1), raw_header_tokens, 1, <<>>)
    IN  LegacyTableRows(hk.p, hk.v, raw_header_tokens, dch, row_indent)

\* for (i, hk) in header_keys { om.push((hk, parse_scalar_token(cells.get(i) or ""))) }
RECURSIVE TabularRowObject(_, _, _, _, _)
TabularRowObject(p, header_keys, cells, i, om) ==
    IF i > Len(header_keys) THEN Ret(p, Obj(om))
    ELSE LET cell == IF i <= Len(cells) THEN cells[i] ELSE <<>>
             r == Invoke("parse_scalar_token", <<p, cell>>)
         IN  TabularRowObject(r.p, header_keys, cells, i + 1,
                              Append(om, KV(header_keys[i], r.v)))

\* one round of the row loop of parse_tabular_rows, entered after skip_blanks
RECURSIVE TabularRows(_, _, _, _, _, _, _)
TabularRow(p2, delimiter, header_keys, row_indent, rows, start) ==
    LET ln == LineAt(p2, p2.idx)
        row_text == ln.kind.s
        row_line_no == p2.idx + 1
        cells == Invoke("split_delim_aware", <<row_text, delimiter>>)
        p4 == ErrorIfNone(Advance(p2),
                          p2.strict /\ check_delimiter_mismatch(row_text, delimiter),
                          row_line_no,
                          "delimiter mismatch: row uses different delimiter than header declares")
        p5 == ErrorIfNone(p4, Len(cells) /= Len(header_keys), row_line_no,
                          "tabular row values do not match header fields")
        r == TabularRowObject(p5, header_keys, cells, 1, <<>>)
    IN  IF ~HasLine(p2, p2.idx) THEN Ret(p2, rows)
        ELSE IF ln.indent /= row_indent THEN Ret(p2, rows)
        ELSE IF ln.kind.k /= "Scalar" THEN Ret(p2, rows)
        ELSE TabularRows(r.p, delimiter, header_keys, row_indent, TRUE, Append(rows, r.v), start)

\* the line after the blank lines at the cursor is a row of this table
TabularInside(ahead, row_indent) ==
    /\ HasLine(ahead, ahead.idx)
    /\ LineAt(ahead, ahead.idx).indent = row_indent
    /\ LineAt(ahead, ahead.idx).kind.k = "Scalar"

\* the strict look-ahead of the row loop: saved_idx = self.idx, skip_blanks, the
\* test of the line found, self.idx = saved_idx, the error
TabularLookAhead(p0, row_indent, inside_table) ==
    IF p0.strict /\ inside_table /\ HasLine(p0, p0.idx) /\ LineAt(p0, p0.idx).kind.k = "Blank"
    THEN LET ahead == skip_blanks(p0)
         IN  ErrorIf(SetIdx(ahead, p0.idx), TabularInside(ahead, row_indent),
                     p0.idx + 1, "blank line inside table")
    ELSE p0

\* the row loop of parse_tabular_rows
TabularRows(p0, delimiter, header_keys, row_indent, inside_table, rows, prev) ==
    TabularRow(skip_blanks(TabularLookAhead(Iter(p0, "parse_tabular_rows", prev),
                                            row_indent, inside_table)),
               delimiter, header_keys, row_indent, rows, p0.idx)

parse_tabular_rows(p0, expected_count, delimiter, fields, row_indent, header_line_no) ==
    LET hk == MapKeyTokens(p0, fields, 1, <<>>)
        rr == TabularRows(hk.p, delimiter, hk.v, row_indent, FALSE, <<>>, -1)
    IN  Ret(ErrorIfNone(rr.p, Len(rr.v) /= expected_count, header_line_no,
                        "tabular array rows do not match header"),
            Arr(rr.v))

\* self.peek().map(|l| l.indent).unwrap_or(d)
PeekIndentOr(p, d) == IF HasLine(p, p.idx) THEN LineAt(p, p.idx).indent ELSE d

\* split the inline values of a header and parse each as a scalar token
InlineArray(p, inline, delimiter) ==
    LET r == MapScalarTokens(p, Invoke("split_delim_aware", <<inline, delimiter>>), 1, <<>>)
    IN  Ret(r.p, Arr(r.v))

parse_scalar_line(p, indent) ==
    LET is_scalar == HasLine(p, p.idx) /\ LineAt(p, p.idx).kind.k = "Scalar"
        s == LineAt(p, p.idx).kind.s
        h == Invoke("parse_header", <<s>>)
        p1 == Advance(p)
    IN  IF is_scalar /\ h.some THEN Invoke("LegacyTable", <<p, h.v.dch, h.v.rest, indent>>)
        ELSE IF is_scalar THEN Invoke("parse_scalar_token", <<p1, s>>)
        ELSE Ret(p1, Null)

RECURSIVE parse_array(_, _)
RECURSIVE parse_object(_, _)
RECURSIVE parse_node(_, _)
RECURSIVE parse_keyed_array_value(_, _)
RECURSIVE parse_array_with_length_check(_, _, _, _)
RECURSIVE ArrayLoop(_, _, _, _, _)
RECURSIVE ObjectLoop(_, _, _, _)

\* the fields parse_object finds at child_indent, appended to the first field
WithRestFields(first, r) ==
    IF r.v.t = "obj" THEN Ret(r.p, Obj(<<first>> \o r.v.o)) ELSE Ret(r.p, Obj(<<first>>))

\* one list item whose hyphen line carries the text vs (the line is consumed)
ArrayItem(p, indent, vs) ==
    LET h == Invoke("parse_array_header", <<vs>>)
        header == h.v
        kv == Invoke("split_kv_quote_aware", <<vs>>)
    IN  IF (Invoke("is_array_header_line", <<vs>>) \/ StartsWith(vs, <<"[">>)) /\ h.some
        THEN IF header.key.some
             THEN LET kp == Invoke("parse_key_token", <<p, header.key.v>>)
                      v == Invoke("parse_keyed_array_value", <<kp.p, header>>)
                  IN  WithRestFields(KV(kp.v, v.v), Invoke("parse_object", <<v.p, indent + 2>>))
             ELSE IF header.fields.some
             THEN Invoke("parse_tabular_rows", <<p, header.length, header.delimiter, header.fields.v,
                                     PeekIndentOr(p, indent + 2), p.idx>>)
             ELSE IF header.inline_values.some /\ header.inline_values.v /= <<>>
             THEN InlineArray(p, header.inline_values.v, header.delimiter)
             ELSE IF header.length = 0 THEN Ret(p, Arr(<<>>))
             ELSE Invoke("parse_array", <<p, PeekIndentOr(p, indent + 2)>>)
        ELSE IF kv.some
        THEN LET kp == Invoke("parse_key_token", <<p, kv.v.key>>)
                 v == IF kv.v.val = <<>> THEN Invoke("parse_node", <<kp.p, indent + 2>>)
                      ELSE Invoke("parse_scalar_token", <<kp.p, kv.v.val>>)
             IN  WithRestFields(KV(kp.v, v.v), Invoke("parse_object", <<v.p, indent + 2>>))
        ELSE Invoke("parse_scalar_token", <<p, vs>>)

\* a hyphen line without text: the node below it, or {} when there is none
BareItem(child_val) ==
    IF child_val.v = Null THEN Ret(child_val.p, Obj(<<>>)) ELSE child_val

\* the line after the blank lines at the cursor is an item of this array
ArrayInside(ahead, indent) ==
    /\ HasLine(ahead, ahead.idx)
    /\ LineAt(ahead, ahead.idx).indent = indent
    /\ LineAt(ahead, ahead.idx).kind.k = "ListItem"

\* one round of the item loop of parse_array, entered after skip_blanks
ArrayRound(p2, indent, arr, start) ==
    LET ln == LineAt(p2, p2.idx)
        item == IF ln.kind.value.some THEN ArrayItem(Advance(p2), indent, ln.kind.value.v)
                ELSE BareItem(Invoke("parse_node", <<Advance(p2), indent + 2>>))
    IN  IF ~HasLine(p2, p2.idx) THEN Ret(p2, Arr(arr))
        ELSE IF ln.indent /= indent \/ ln.kind.k /= "ListItem" THEN Ret(p2, Arr(arr))
        ELSE ArrayLoop(item.p, indent, TRUE, Append(arr, item.v), start)

\* the strict look-ahead of the item loop: saved_idx = self.idx, skip_blanks, the
\* test of the line found, self.idx = saved_idx, the error
ArrayLookAhead(p0, indent, inside_array) ==
    IF p0.strict /\ inside_array /\ HasLine(p0, p0.idx) /\ LineAt(p0, p0.idx).kind.k = "Blank"
    THEN LET ahead == skip_blanks(p0)
         IN  ErrorIf(SetIdx(ahead, p0.idx), ArrayInside(ahead, indent),
                     p0.idx + 1, "blank line inside array")
    ELSE p0

ArrayLoop(p0, indent, inside_array, arr, prev) ==
    ArrayRound(skip_blanks(ArrayLookAhead(Iter(p0, "parse_array", prev), indent, inside_array)),
               indent, arr, p0.idx)

parse_array(p, indent) == ArrayLoop(p, indent, FALSE, <<>>, -1)

parse_array_with_length_check(p, indent, expected_len, header_line_no) ==
    LET r == Invoke("parse_array", <<p, indent>>)
    IN  IF r.v.t = "arr" /\ Len(r.v.a) /= expected_len /\ ~r.p.error.some
        THEN Ret(SetError(r.p, header_line_no, "array length mismatch"), r.v)
        ELSE r

parse_keyed_array_value(p0, header) ==
    LET header_line_no == p0.idx
        p1 == IF p0.strict /\ header.fields_delimiter_mismatch /\ ~p0.error.some
              THEN SetError(p0, header_line_no,
                            "mismatched delimiter between bracket and brace fields")
              ELSE p0
        values == Invoke("split_delim_aware", <<header.inline_values.v, header.delimiter>>)
        p2 == IF Len(values) /= header.length /\ ~p1.error.some
              THEN SetError(p1, header_line_no, "array length mismatch")
              ELSE p1
    IN  IF header.fields.some
        THEN Invoke("parse_tabular_rows", <<p1, header.length, header.delimiter, header.fields.v,
                                PeekIndentOr(p1, 2), header_line_no>>)
        ELSE IF header.inline_values.some /\ header.inline_values.v /= <<>>
        THEN InlineArray(p2, header.inline_values.v, header.delimiter)
        ELSE Invoke("parse_array_with_length_check", <<p1, PeekIndentOr(p1, 2), header.length,
                                           header_line_no>>)

\* the keyed-array path of parse_object: the header line is consumed, the key
\* parsed (an absent key defaults to the empty string) and the array value read
KeyedArrayField(p, header) ==
    LET p1 == Advance(p)
        kp == IF header.key.some THEN Invoke("parse_key_token", <<p1, header.key.v>>) ELSE Ret(p1, <<>>)
        v == Invoke("parse_keyed_array_value", <<kp.p, header>>)
    IN  Ret(v.p, KV(kp.v, v.v))

\* the KeyOnly arm of parse_object once the line is known not to be an array header
KeyOnlyField(p, indent, kref) ==
    LET p1 == Advance(p)
        kp == Invoke("parse_key_token", <<p1, kref>>)
        p2 == kp.p
        child_indent == PeekIndentOr(p2, indent + 2)
        has_nl == HasLine(p2, p2.idx)
        nl == LineAt(p2, p2.idx)
        h == Invoke("parse_header", <<nl.kind.s>>)
        legacy == /\ has_nl /\ nl.indent = child_indent /\ nl.indent > indent
                  /\ nl.kind.k = "Scalar" /\ h.some
        table == Invoke("LegacyTable", <<p2, h.v.dch, h.v.rest, child_indent>>)
        p3 == IF /\ has_nl /\ nl.indent > indent /\ nl.kind.k = "Scalar"
                 /\ ~StartsWith(nl.kind.s, <<"@">>) /\ ~StartsWith(nl.kind.s, <<"[">>)
              THEN SetErrorIfNone(p2, p2.idx + 1, "missing colon in key-value context")
              ELSE p2
        v == Invoke("parse_node", <<p3, child_indent>>)
    IN  IF legacy THEN Ret(table.p, KV(kp.v, table.v))
        ELSE IF v.v = Null THEN Ret(v.p, KV(kp.v, Obj(<<>>)))
        ELSE Ret(v.p, KV(kp.v, v.v))

\* one round of the field loop of parse_object, entered after skip_blanks
ObjectRound(p1, indent, map, start) ==
    LET has == HasLine(p1, p1.idx)
        ln == LineAt(p1, p1.idx)
        sh == Invoke("parse_scalar_keyed_array_header", <<ln.kind.s>>)
        combined == ln.kind.key \o <<":", " ">> \o ln.kind.value
        ch == Invoke("parse_array_header", <<combined>>)
        kh == Invoke("parse_array_header", <<ln.kind.key \o <<":">>>>)
        p2 == Advance(p1)
        kp == Invoke("parse_key_token", <<p2, ln.kind.key>>)
        vp == Invoke("parse_scalar_token", <<kp.p, ln.kind.value>>)
        field ==
            IF ln.kind.k = "Scalar" THEN KeyedArrayField(p1, sh.v)
            ELSE IF ln.kind.k = "KeyValue"
            THEN IF ch.some THEN KeyedArrayField(p1, ch.v) ELSE Ret(vp.p, KV(kp.v, vp.v))
            ELSE IF kh.some THEN KeyedArrayField(p1, kh.v)
            ELSE KeyOnlyField(p1, indent, ln.kind.key)
    IN  IF ~has THEN Ret(p1, Obj(map))
        ELSE IF ln.indent /= indent THEN Ret(p1, Obj(map))
        ELSE IF ln.kind.k = "Scalar"
                /\ ~(Invoke("is_array_header_line", <<ln.kind.s>>) /\ Contains(ln.kind.s, "[")
                     /\ sh.some /\ sh.v.key.some)
             THEN Ret(p1, Obj(map))
        ELSE IF ln.kind.k \notin {"Scalar", "KeyValue", "KeyOnly"} THEN Ret(p1, Obj(map))
        ELSE ObjectLoop(field.p, indent, Append(map, field.v), start)

ObjectLoop(p0, indent, map, prev) ==
    ObjectRound(skip_blanks(Iter(p0, "parse_object", prev)), indent, map, p0.idx)

parse_object(p, indent) == ObjectLoop(p, indent, <<>>, -1)

parse_node(p0, min_indent) ==
    LET p1 == skip_blanks(p0)
        ln == LineAt(p1, p1.idx)
        indent == ln.indent
        p2 == Advance(p1)
        kh == Invoke("parse_array_header", <<ln.kind.key \o <<":">>>>)
        ch == Invoke("parse_array_header", <<ln.kind.key \o <<":", " ">> \o ln.kind.value>>)
        rest ==
            CASE ln.kind.k = "ListItem" -> Invoke("parse_array", <<p1, indent>>)
              [] ln.kind.k \in {"KeyValue", "KeyOnly"} -> Invoke("parse_object", <<p1, indent>>)
              [] ln.kind.k = "Scalar" -> Invoke("parse_scalar_line", <<p1, indent>>)
              [] OTHER -> Ret(p1, Null)
    IN  IF ~HasLine(p1, p1.idx) THEN Ret(p1, Null)
        ELSE IF ln.indent < min_indent THEN Ret(p1, Null)
        ELSE IF ln.kind.k = "KeyOnly"
        THEN IF ln.kind.key = <<"[","0","]">> THEN Ret(p2, Arr(<<>>))
             ELSE IF ln.kind.key = <<"{","0","}">> THEN Ret(p2, Obj(<<>>))
             ELSE IF StartsWith(ln.kind.key, <<"[">>) /\ kh.some /\ ~kh.v.key.some
             THEN IF kh.v.fields.some
                  THEN Invoke("parse_tabular_rows", <<p2, kh.v.length, kh.v.delimiter, kh.v.fields.v,
                                          indent + 2, p1.idx + 1>>)
                  ELSE IF kh.v.inline_values.some /\ kh.v.inline_values.v /= <<>>
                  THEN InlineArray(p2, kh.v.inline_values.v, kh.v.delimiter)
                  ELSE Invoke("parse_array", <<p2, indent>>)
             ELSE rest
        ELSE IF ln.kind.k = "KeyValue"
                /\ StartsWith(ln.kind.key, <<"[">>) /\ ch.some /\ ~ch.v.key.some
        THEN IF ch.v.inline_values.some /\ ch.v.inline_values.v /= <<>>
             THEN InlineArray(p2, ch.v.inline_values.v, ch.v.delimiter)
             ELSE Ret(p2, Arr(<<>>))
        ELSE rest

parse_root_array_with_header(p0, header) ==
    LET line_no == p0.idx + 1
        p1 == Advance(p0)
        values == Invoke("split_delim_aware", <<header.inline_values.v, header.delimiter>>)
        p2 == IF Len(values) /= header.length
              THEN SetError(p1, line_no, "array length mismatch")
              ELSE p1
    IN  IF header.fields.some
        THEN Invoke("parse_tabular_rows", <<p1, header.length, header.delimiter, header.fields.v,
                                2, line_no>>)
        ELSE IF header.inline_values.some /\ header.inline_values.v /= <<>>
        THEN InlineArray(p2, header.inline_values.v, header.delimiter)
        ELSE Invoke("parse_array_with_length_check", <<p1, 2, header.length, line_no>>)

parse_document(p0) ==
    LET p1 == skip_blanks(p0)
        ln == LineAt(p1, p1.idx)
        kh == Invoke("parse_array_header", <<ln.kind.key \o <<":">>>>)
        combined == ln.kind.key \o <<":", " ">> \o ln.kind.value
        ch == Invoke("parse_array_header", <<combined>>)
        sh == Invoke("parse_array_header", <<ln.kind.s>>)
        indent == ln.indent
        r == Invoke("parse_node", <<p1, indent>>)
        p2 == skip_blanks(r.p)
        p3 == IF r.p.strict /\ ~r.p.error.some
              THEN IF /\ HasLine(p2, p2.idx) /\ LineAt(p2, p2.idx).indent = indent
                      /\ LineAt(p2, p2.idx).kind.k = "Scalar"
                   THEN SetError(p2, p2.idx + 1,
                                 "two primitives at root depth in strict mode")
                   ELSE p2
              ELSE r.p
        node == Ret(p3, r.v)
    IN  IF ~HasLine(p1, p1.idx) THEN Ret(p1, Obj(<<>>))
        ELSE IF ln.indent /= 0 THEN node
        ELSE IF ln.kind.k = "KeyOnly"
        THEN IF ln.kind.key = <<"{","0","}">> THEN Ret(Advance(p1), Obj(<<>>))
             ELSE IF (Invoke("is_array_header_line", <<ln.kind.key>>) \/ StartsWith(ln.kind.key, <<"[">>))
                     /\ kh.some /\ ~kh.v.key.some
             THEN Invoke("parse_root_array_with_header", <<p1, kh.v>>)
             ELSE node
        ELSE IF ln.kind.k = "KeyValue"
        THEN IF (Invoke("is_array_header_line", <<combined>>) \/ StartsWith(ln.kind.key, <<"[">>))
                /\ ch.some /\ ~ch.v.key.some
             THEN Invoke("parse_root_array_with_header", <<p1, ch.v>>)
             ELSE node
        ELSE IF ln.kind.k = "Scalar"
        THEN IF (Invoke("is_array_header_line", <<ln.kind.s>>) \/ StartsWith(ln.kind.s, <<"[">>)) /\ sh.some
             THEN Invoke("parse_root_array_with_header", <<p1, sh.v>>)
             ELSE node
        ELSE node

NoValue == [t |-> "none"]

\* Result<Value, Error> together with the history of assignments to self.error
parse_to_value_with_strict(in, strict) ==
    LET r == Invoke("parse_document", <<Parser_from_input_with_strict(in, strict)>>)
    IN  IF r.p.error.some
        THEN [ok |-> FALSE, value |-> NoValue, error |-> r.p.error.v, trace |-> r.p.trace,
              none |-> FALSE, cursor |-> r.p.cursor]
        ELSE [ok |-> TRUE, value |-> r.v, error |-> <<>>, trace |-> r.p.trace,
              none |-> FALSE, cursor |-> r.p.cursor]

\* decode_from_str handing the parser the negation of the strict flag
DecodeFromStrFlagNegated(s, options) ==
    LET e == Invoke("validate_indentation", <<Invoke("scan", <<s>>)>>)
    IN  IF options.strict /\ e.some
        THEN [ok |-> FALSE, value |-> NoValue, error |-> e.v, trace |-> <<>>, none |-> FALSE,
              cursor |-> <<>>]
        ELSE parse_to_value_with_strict(s, ~options.strict)

\* lib.rs: strict mode first runs the indentation validator over the scanned lines
decode_from_str(s, options) ==
    LET e == Invoke("validate_indentation", <<Invoke("scan", <<s>>)>>)
    IN  IF options.strict /\ e.some
        THEN [ok |-> FALSE, value |-> NoValue, error |-> e.v, trace |-> <<>>, none |-> FALSE,
              cursor |-> <<>>]
        ELSE parse_to_value_with_strict(s, options.strict)

(***************************************************************************)
(* de/direct.rs: the deserializer that reads scanned lines directly, for   *)
(* T = serde_json::Value and documents whose root is a scalar line.        *)
(***************************************************************************)
\* the unescape loop of parser.rs with every failure mapped to None
unescape_json_string(s) ==
    LET r == Invoke("try_unescape_json_string", <<s>>)
    IN  IF r.ok THEN Some(r.v) ELSE None

\* DirectDeserializer::classify_primitive followed by PrimDe::deserialize_any
\* into a serde_json::Value (visit_f64 of a non-finite double gives Null)
classify_primitive(s) ==
    LET st == unescape_json_string(s)
        i == Invoke("I64Token", <<s>>)
        u == Invoke("U64Token", <<s>>)
        f == Invoke("ParseF64", <<s>>)
    IN  IF st.some THEN Str(st.v)
        ELSE IF s = <<"t","r","u","e">> THEN Bool(TRUE)
        ELSE IF s = <<"f","a","l","s","e">> THEN Bool(FALSE)
        ELSE IF s = <<"n","u","l","l">> THEN Null
        ELSE IF s /= <<>> /\ s[1] = "-" /\ Len(s) > 1 /\ AllDigits(Tail(s)) /\ i.some
             THEN i.v
        ELSE IF s /= <<>> /\ s[1] /= "-" /\ AllDigits(s) /\ u.some THEN u.v
        ELSE IF f.some THEN (IF IsNonFinite(f.v) THEN Null ELSE f.v)
        ELSE Str(s)

\* the root is a scalar line, or there is no line after the blank ones
DirectScalarRoot(s) ==
    LET p == skip_blanks([lines |-> Invoke("scan", <<s>>), idx |-> 0, cursor |-> <<>>])
    IN  HasLine(p, p.idx) => LineAt(p, p.idx).kind.k = "Scalar"

\* de::direct::from_str on such a document
direct_from_str(s, options) ==
    LET lines == Invoke("scan", <<s>>)
        e == Invoke("validate_indentation", <<lines>>)
        p == skip_blanks([lines |-> lines, idx |-> 0, cursor |-> <<>>])
    IN  IF options.strict /\ e.some
        THEN [ok |-> FALSE, value |-> NoValue, error |-> e.v, trace |-> <<>>, none |-> FALSE,
              cursor |-> <<>>]
        ELSE [ok |-> TRUE,
              value |-> IF HasLine(p, p.idx) THEN classify_primitive(LineAt(p, p.idx).kind.s)
                        ELSE Null,
              error |-> <<>>, trace |-> <<>>, none |-> FALSE, cursor |-> <<>>]

Invoke(f, a) ==
    CASE f = "parse_array" -> parse_array(a[1], a[2])
      [] f = "parse_object" -> parse_object(a[1], a[2])
      [] f = "parse_node" -> parse_node(a[1], a[2])
      [] f = "parse_keyed_array_value" -> parse_keyed_array_value(a[1], a[2])
      [] f = "parse_array_with_length_check" -> parse_array_with_length_check(a[1], a[2], a[3], a[4])
      [] f = "parse_scalar_line" -> parse_scalar_line(a[1], a[2])
      [] f = "parse_tabular_rows" -> parse_tabular_rows(a[1], a[2], a[3], a[4], a[5], a[6])
      [] f = "LegacyTable" -> LegacyTable(a[1], a[2], a[3], a[4])
      [] f = "parse_scalar_token" -> parse_scalar_token(a[1], a[2])
      [] f = "parse_key_token" -> parse_key_token(a[1], a[2])
      [] f = "parse_array_header" -> parse_array_header(a[1])
      [] f = "is_array_header_line" -> is_array_header_line(a[1])
      [] f = "parse_document" -> parse_document(a[1])
      [] f = "parse_root_array_with_header" -> parse_root_array_with_header(a[1], a[2])
      [] f = "decode_from_str" -> decode_from_str(a[1], a[2])
      [] f = "I64Token" -> I64Token(a[1])
      [] f = "DirectScalarRoot" -> DirectScalarRoot(a[1])
      [] f = "direct_from_str" -> direct_from_str(a[1], a[2])
      [] f = "U64Token" -> U64Token(a[1])
      [] f = "encode_value" -> encode_value(a[1], a[2], a[3], a[4])
      [] f = "encode_array" -> encode_array(a[1], a[2], a[3], a[4])
      [] f = "encode_list_item_object" -> encode_list_item_object(a[1], a[2], a[3], a[4])
      [] f = "encode_list_item_array" -> encode_list_item_array(a[1], a[2], a[3], a[4])
      [] f = "encode_list_item_json" -> encode_list_item_json(a[1], a[2], a[3], a[4])
      [] f = "encode_keyed_array" -> encode_keyed_array(a[1], a[2], a[3], a[4], a[5])
      [] f = "encode_keyed_array_json" -> encode_keyed_array_json(a[1], a[2], a[3], a[4], a[5])
      [] f = "encode_object_field_with_context" -> encode_object_field_with_context(a[1], a[2], a[3], a[4], a[5], a[6])
      [] f = "encode_folded_value" -> encode_folded_value(a[1], a[2], a[3], a[4], a[5])
      [] f = "format_f64" -> format_f64(a[1])
      [] f = "format_primitive_value" -> format_primitive_value(a[1], a[2])
      [] f = "format_primitive_value_json" -> format_primitive_value_json(a[1], a[2])
      [] f = "format_string" -> format_string(a[1], a[2])
      [] f = "format_key" -> format_key(a[1])
      [] f = "try_scalar_to_string" -> try_scalar_to_string(a[1], a[2])
      [] f = "MapSer_serialize_value" -> MapSer_serialize_value(a[1], a[2], a[3], a[4], a[5])
      [] f = "MapSer_entries" -> MapSer_entries(a[1], a[2], a[3], a[4], a[5])
      [] f = "SeqSer_end" -> SeqSer_end(a[1], a[2], a[3], a[4])
      [] f = "StreamingSerializer_serialize" -> StreamingSerializer_serialize(a[1], a[2], a[3], a[4])
      [] f = "to_string" -> to_string(a[1], a[2])
      [] f = "encode_to_string" -> encode_to_string(a[1], a[2])
      [] f = "to_value" -> to_value(a[1])
      [] f = "try_fold_keys" -> try_fold_keys(a[1], a[2], a[3], a[4])
      [] f = "split_delim_aware" -> split_delim_aware(a[1], a[2])
      [] f = "parse_line" -> parse_line(a[1])
      [] f = "scan" -> scan(a[1])
      [] f = "validate_indentation" -> validate_indentation(a[1])
      [] f = "try_unescape_json_string" -> try_unescape_json_string(a[1])
      [] f = "ParseF64" -> ParseF64(a[1])
      [] f = "ParseI64" -> ParseI64(a[1])
      [] f = "ParseU64" -> ParseU64(a[1])
      [] f = "classify_numeric_hint" -> classify_numeric_hint(a[1])
      [] f = "has_forbidden_leading_zeros" -> has_forbidden_leading_zeros(a[1])
      [] f = "parse_scalar_keyed_array_header" -> parse_scalar_keyed_array_header(a[1])
      [] f = "split_kv_quote_aware" -> split_kv_quote_aware(a[1])
      [] f = "parse_header" -> parse_header(a[1])

(***************************************************************************)
(* decode/path_expand.rs                                                   *)
(***************************************************************************)
\* str::split(c): the pieces of s between occurrences of c
RECURSIVE StrSplit(_, _)
StrSplit(s, c) ==
    IF ~Contains(s, c) THEN <<s>>
    ELSE LET i == CHOOSE j \in 1..Len(s) : s[j] = c /\ \A k \in 1..(j - 1) : s[k] /= c
         IN  <<Take(s, i - 1)>> \o StrSplit(Drop(s, i), c)

is_valid_identifier(s) ==
    /\ s /= <<>>
    /\ s[1] \in AlphaSet \cup {"_"}
    /\ \A i \in 2..Len(s) : s[i] \in AlphaSet \cup DigitSet \cup {"_"}

QUOTED_DOT_MARKER == ZWSP

should_expand_key(key) ==
    IF StartsWith(key, <<QUOTED_DOT_MARKER>>) THEN FALSE
    ELSE IF ~Contains(key, ".") THEN FALSE
    ELSE \A i \in 1..Len(StrSplit(key, ".")) : is_valid_identifier(StrSplit(key, ".")[i])

\* split_key: key.split('.')
split_key(key) == StrSplit(key, ".")

\* target.iter().position(|(k, _)| k == &key)
KeyPosition(target, key) ==
    IF \E i \in 1..Len(target) : target[i].k = key
    THEN Some(CHOOSE i \in 1..Len(target) :
                  target[i].k = key /\ \A j \in 1..(i - 1) : target[j].k /= key)
    ELSE None

\* deep_merge with the object-against-object arm reading only the existing
\* entry: the incoming object replaces nothing and adds nothing
DeepMergeKeepExisting(target, key, value, strict) ==
    LET pos == KeyPosition(target, key)
    IN  IF pos.some
        THEN LET existing == target[pos.v].v
             IN  IF existing.t = "obj" /\ value.t = "obj" THEN Ok(target)
                 ELSE IF strict THEN Err(<<"path expansion conflict">>)
                 ELSE Ok([target EXCEPT ![pos.v].v = value])
        ELSE Ok(Append(target, KV(key, value)))

\* deep_merge(target, key, value, strict): Ok carries the target after the
\* call. MergeEntries is the loop over new_obj, each step merging into merged
\* and leaving at the first error.
RECURSIVE deep_merge(_, _, _, _)
RECURSIVE MergeEntries(_, _, _, _)
deep_merge(target, key, value, strict) ==
    LET pos == KeyPosition(target, key)
    IN  IF pos.some
        THEN LET existing == target[pos.v].v
             IN  IF existing.t = "obj" /\ value.t = "obj"
                 THEN LET m == MergeEntries(existing.o, value.o, 1, strict)
                      IN  IF m.ok THEN Ok([target EXCEPT ![pos.v].v = Obj(m.v)]) ELSE m
                 ELSE IF strict THEN Err(<<"path expansion conflict">>)
                 ELSE Ok([target EXCEPT ![pos.v].v = value])
        ELSE Ok(Append(target, KV(key, value)))

MergeEntries(merged, new_obj, i, strict) ==
    IF i > Len(new_obj) THEN Ok(merged)
    ELSE LET r == deep_merge(merged, new_obj[i].k, new_obj[i].v, strict)
         IN  IF r.ok THEN MergeEntries(r.v, new_obj, i + 1, strict) ELSE r

RECURSIVE build_nested_from_segments(_, _)
build_nested_from_segments(segments, value) ==
    IF segments = <<>> THEN value
    ELSE IF Len(segments) = 1 THEN Obj(<<KV(segments[1], value)>>)
    ELSE Obj(<<KV(segments[1], build_nested_from_segments(Tail(segments), value))>>)

\* expand_paths(value, strict): Result<Value, String>. ExpandEntries is the
\* loop over the entries of an object with result as built so far, ExpandItems
\* the loop over the items of an array.
RECURSIVE expand_paths(_, _)
RECURSIVE ExpandEntries(_, _, _, _)
RECURSIVE ExpandItems(_, _, _, _)
expand_paths(value, strict) ==
    CASE value.t = "obj" ->
           LET r == ExpandEntries(value.o, 1, <<>>, strict)
           IN  IF r.ok THEN Ok(Obj(r.v)) ELSE r
      [] value.t = "arr" ->
           LET r == ExpandItems(value.a, 1, <<>>, strict)
           IN  IF r.ok THEN Ok(Arr(r.v)) ELSE r
      [] OTHER -> Ok(value)

ExpandEntries(entries, i, result_, strict) ==
    IF i > Len(entries) THEN Ok(result_)
    ELSE LET key == entries[i].k
             expanded_val == expand_paths(entries[i].v, strict)
         IN  IF ~expanded_val.ok THEN expanded_val
             ELSE IF should_expand_key(key)
             THEN LET nested == build_nested_from_segments(split_key(key), expanded_val.v)
                      m == IF nested.t = "obj" THEN MergeEntries(result_, nested.o, 1, strict)
                           ELSE Ok(result_)
                  IN  IF m.ok THEN ExpandEntries(entries, i + 1, m.v, strict) ELSE m
             ELSE LET clean_key == IF StartsWith(key, <<QUOTED_DOT_MARKER>>)
                                   THEN Tail(key) ELSE key
                      m == deep_merge(result_, clean_key, expanded_val.v, strict)
                  IN  IF m.ok THEN ExpandEntries(entries, i + 1, m.v, strict) ELSE m

ExpandItems(arr, i, result_, strict) ==
    IF i > Len(arr) THEN Ok(result_)
    ELSE LET r == expand_paths(arr[i], strict)
         IN  IF r.ok THEN ExpandItems(arr, i + 1, Append(result_, r.v), strict) ELSE r

(***************************************************************************)
(* Sentinels and the initial state                                         *)
(***************************************************************************)
NoResult ==
    [ok |-> FALSE, value |-> NoValue, error |-> <<>>, trace |-> <<>>, none |-> TRUE, cursor |-> <<>>]

NoText == [done |-> FALSE, s |-> <<>>]

\* options.rs: impl Default for Options
DefaultOptions ==
    [delimiter |-> "Comma", strict |-> FALSE, indent |-> 2,
     key_folding |-> "Off", flatten_depth |-> <<>>, expand_paths |-> "Off"]

Init ==
    /\ out = <<>>
    /\ wops = 0
    /\ finished = NoText
    /\ input = NoValue
    /\ via = "none"
    /\ opts = DefaultOptions
    /\ text = <<>>
    /\ result = NoResult
    /\ pc = "idle"

codecVars == <<input, via, opts, text, result, pc>>

(***************************************************************************)
(* A client driving a LineWriter                                           *)
(***************************************************************************)
MaxWriterOps == 3

MaxWriterIndent == 2

WriterIndents == {0, MaxWriterIndent}

WriterContents == {<<>>, <<"a">>, <<"t","r","u","e",",","x">>}

WriterOpen == ~finished.done /\ wops < MaxWriterOps

WLine ==
    /\ WriterOpen
    /\ \E i \in WriterIndents, s \in WriterContents : out' = line(out, i, s)
    /\ wops' = wops + 1
    /\ UNCHANGED <<finished, codecVars>>

WLineKv ==
    /\ WriterOpen
    /\ \E i \in WriterIndents, k \in WriterContents, v \in WriterContents :
          out' = line_kv(out, i, k, v)
    /\ wops' = wops + 1
    /\ UNCHANGED <<finished, codecVars>>

WLineListItem ==
    /\ WriterOpen
    /\ \E i \in WriterIndents, v \in WriterContents : out' = line_list_item(out, i, v)
    /\ wops' = wops + 1
    /\ UNCHANGED <<finished, codecVars>>

WLineKeyOnly ==
    /\ WriterOpen
    /\ \E i \in WriterIndents, k \in WriterContents : out' = line_key_only(out, i, k)
    /\ wops' = wops + 1
    /\ UNCHANGED <<finished, codecVars>>

WIntoString ==
    /\ ~finished.done
    /\ finished' = [done |-> TRUE, s |-> into_string(out)]
    /\ UNCHANGED <<out, wops, codecVars>>

NextWriter == WLine \/ WLineKv \/ WLineListItem \/ WLineKeyOnly \/ WIntoString

SpecWriter == Init /\ [][NextWriter]_vars

\* C6: every writer operation appends its indent, its content and a single
\* line feed, and the finished output has no line feed after its final line
\* (every other line is followed by exactly one line feed).
C6_NoTrailingLineFeed ==
    (finished.done /\ finished.s /= <<>>) => finished.s[Len(finished.s)] /= "\n"

(***************************************************************************)
(* A client of decode_from_str: documents are supplied and decoded         *)
(***************************************************************************)
MaxLines == 3

\* lines a supplied document is made of
LineVocab ==
    {<<"a",":"," ","1">>,
     <<"a",":">>,
     <<" "," ","b",":"," ","2">>,
     <<" "," ","-"," ","1">>,
     <<>>,
     <<"[","2","]",":"," ","1">>,
     <<"[","2","]",":">>,
     <<"a","[","1","]",":"," ","1",",","2">>,
     <<"[","1","]","{","a",",","b","}",":">>,
     <<" "," ","1">>,
     <<" "," ","1",",","2">>,
     <<"a",":"," ","\"","x">>,
     <<" ","a",":"," ","1">>,
     <<"\t","b",":"," ","1">>,
     <<"@",",","a",",","a">>,
     <<" "," ","-"," ","\"","x">>,
     <<" "," "," "," ","c",":"," ","3">>,
     <<"x">>}

JoinLines(ls) == JoinWith(ls, <<"\n">>)

VocabDocuments == {JoinLines(ls) : ls \in UNION {[1..n -> LineVocab] : n \in 1..MaxLines}}

MaxDeclared == 2

ArrayForms ==
    {"inline", "list", "tabular", "keyed_inline", "keyed_list", "keyed_tabular",
     "item_inline", "item_list"}

\* "[n]" with an optional key in front
Bracket(key, n) == key \o <<"[">> \o NatToStr(n) \o <<"]">>

\* k inline cells "1,1,.."
Cells(k) == JoinWith([i \in 1..k |-> <<"1">>], <<",">>)

\* a document whose array header declares n elements and which carries k
ArrayDoc(form, n, k) ==
    LET items(sp) == [i \in 1..k |-> Repeat(" ", sp) \o <<"-", " ", "1">>]
        rows == [i \in 1..k |-> <<" ", " ", "1", ",", "2">>]
        inl(h) == IF k = 0 THEN h \o <<":">> ELSE h \o <<":", " ">> \o Cells(k)
        flds == <<"{", "a", ",", "b", "}", ":">>
    IN  CASE form = "inline" -> inl(Bracket(<<>>, n))
          [] form = "list" -> JoinLines(<<Bracket(<<>>, n) \o <<":">>>> \o items(2))
          [] form = "tabular" -> JoinLines(<<Bracket(<<>>, n) \o flds>> \o rows)
          [] form = "keyed_inline" -> inl(Bracket(<<"a">>, n))
          [] form = "keyed_list" -> JoinLines(<<Bracket(<<"a">>, n) \o <<":">>>> \o items(2))
          [] form = "keyed_tabular" -> JoinLines(<<Bracket(<<"a">>, n) \o flds>> \o rows)
          [] form = "item_inline" ->
                JoinLines(<<(<<"[", "1", "]", ":">>), <<" ", " ", "-", " ">> \o inl(Bracket(<<>>, n))>>)
          [] form = "item_list" ->
                JoinLines(<<(<<"[", "1", "]", ":">>),
                            <<" ", " ", "-", " ">> \o Bracket(<<>>, n) \o <<":">>>>
                          \o items(4))

ArrayDocuments ==
    {ArrayDoc(f, n, k) : f \in ArrayForms, n \in 0..MaxDeclared, k \in 0..MaxDeclared}

\* one field "a.b: 1" under a dotted key, written bare or quoted, at the root,
\* under a key and in a list item
DottedKeys == {<<"a", ".", "b">>, <<"\"", "a", ".", "b", "\"">>, <<"a", ".", "b", ".", "c">>}

KeyPositions == {"root", "nested", "item"}

KeyDoc(pos, key) ==
    CASE pos = "root" -> key \o <<":", " ", "1">>
      [] pos = "nested" -> JoinLines(<<(<<"x", ":">>), <<" ", " ">> \o key \o <<":", " ", "1">>>>)
      [] pos = "item" -> JoinLines(<<(<<"[", "1", "]", ":">>),
                                     <<" ", " ", "-", " ">> \o key \o <<":", " ", "1">>>>)

KeyDocuments == {KeyDoc(pos, k) : pos \in KeyPositions, k \in DottedKeys}

\* number-like tokens: leading zeros, integers, fractions and exponents
TokenSamples ==
    {<<"0", "0", "7">>, <<"-", "0", "0", "7">>, <<"0", "0">>, <<"-", "0", "1">>,
     <<"0", "1", "2", "3">>, <<"0">>, <<"-", "0">>, <<"7">>, <<"-", "7">>,
     <<"0", ".", "5">>, <<"1", ".", "0">>, <<"-", "2", ".", "0">>, <<"1", ".", "5">>,
     <<"1", "e", "3">>, <<"2", ".", "5", "e", "1">>, <<"1", "E", "-", "2">>,
     <<"1", "e", "1", "9">>, <<"1", "e", "2", "0">>, <<"-", "1", "e", "1", "9">>,
     <<"-", "1", "e", "2", "0">>, <<"1", "2", "0", ".", "0", "0">>,
     <<"0", ".", "0">>, <<"-", "0", ".", "0">>, <<"1", ".">>, <<"t", "r", "u", "e">>}

TokenPositions == {"root", "field", "inline", "item", "cell"}

\* a document holding the token as the root, a field value, an inline array
\* element, a list item or a table cell
TokenDoc(pos, tok) ==
    CASE pos = "root" -> tok
      [] pos = "field" -> <<"a", ":", " ">> \o tok
      [] pos = "inline" -> <<"[", "1", "]", ":", " ">> \o tok
      [] pos = "item" -> JoinLines(<<(<<"[", "1", "]", ":">>), <<" ", " ", "-", " ">> \o tok>>)
      [] pos = "cell" -> JoinLines(<<(<<"[", "1", "]", "{", "a", "}", ":">>), <<" ", " ">> \o tok>>)

\* the value such a document is to decode to when the token denotes v
TokenValue(pos, v) ==
    CASE pos = "root" -> v
      [] pos = "field" -> Obj(<<KV(<<"a">>, v)>>)
      [] pos \in {"inline", "item"} -> Arr(<<v>>)
      [] pos = "cell" -> Arr(<<Obj(<<KV(<<"a">>, v)>>)>>)

TokenDocuments == {TokenDoc(pos, tok) : pos \in TokenPositions, tok \in TokenSamples}

\* single lines over quotes, backslashes, colons and a letter: quoted regions,
\* escapes, unterminated quotes and trailing backslashes
MaxColonLen == 4

ColonDocuments == UNION {[1..n -> {"a", ":", "\"", "\\"}] : n \in 1..MaxColonLen}

\* inline arrays whose row is made of cells, delimiters, quotes, backslashes
\* and spaces: empty cells, quoted delimiters, unterminated quotes
MaxRowLen == 4

RowTexts == UNION {[1..n -> {"a", ",", "\"", "\\", " "}] : n \in 0..MaxRowLen}

RowDoc(row) == <<"[", "2", "]", ":", " ">> \o row

RowDocuments == {RowDoc(row) : row \in RowTexts}

\* entries whose keys share the prefix a: the text of the entry, the path of
\* its leaf and the integer at the leaf
MergeSamples ==
    <<[lines |-> <<(<<"a", ".", "b", ":", " ", "1">>)>>, path |-> <<(<<"a">>), <<"b">>>>, n |-> 1],
      [lines |-> <<(<<"a", ".", "c", ":", " ", "2">>)>>, path |-> <<(<<"a">>), <<"c">>>>, n |-> 2],
      [lines |-> <<(<<"a", ":", " ", "3">>)>>, path |-> <<(<<"a">>)>>, n |-> 3],
      [lines |-> <<(<<"a", ".", "b", ".", "c", ":", " ", "4">>)>>,
       path |-> <<(<<"a">>), <<"b">>, <<"c">>>>, n |-> 4],
      [lines |-> <<(<<"a", ".", "b", ".", "d", ":", " ", "5">>)>>,
       path |-> <<(<<"a">>), <<"b">>, <<"d">>>>, n |-> 5],
      [lines |-> <<(<<"a", ":">>), <<" ", " ", "x", ":", " ", "6">>>>,
       path |-> <<(<<"a">>), <<"x">>>>, n |-> 6]>>

MergeDoc(i, j) == JoinLines(MergeSamples[i].lines \o MergeSamples[j].lines)

MergePairs == {p \in (1..Len(MergeSamples)) \X (1..Len(MergeSamples)) : p[1] /= p[2]}

MergeDocuments == {MergeDoc(p[1], p[2]) : p \in MergePairs}

\* a blank line between the items of a list, between the rows of a table, in
\* the fields of an object and after the last row
BlankLineDocuments ==
    {JoinLines(<<(<<"[", "2", "]", ":">>), <<" ", " ", "-", " ", "1">>, <<>>,
                 <<" ", " ", "-", " ", "2">>>>),
     JoinLines(<<(<<"[", "2", "]", "{", "a", "}", ":">>), <<" ", " ", "1">>, <<>>, <<>>,
                 <<" ", " ", "2">>>>),
     JoinLines(<<(<<"[", "1", "]", "{", "a", "}", ":">>), <<" ", " ", "1">>, <<>>,
                 <<"b", ":", " ", "2">>>>),
     JoinLines(<<(<<"a", ":">>), <<" ", " ", "b", ":", " ", "1">>, <<>>,
                 <<" ", " ", "c", ":", " ", "2">>>>),
     JoinLines(<<(<<"x", "[", "2", "]", ":">>), <<" ", " ", "-", " ", "a", ":", " ", "1">>, <<>>,
                 <<" ", " ", "-", " ", "a", ":", " ", "2">>>>)}

Documents ==
    VocabDocuments \cup ArrayDocuments \cup KeyDocuments \cup TokenDocuments \cup ColonDocuments
    \cup RowDocuments \cup MergeDocuments
    \cup BlankLineDocuments

IndentSizes == {2, 4}

ExpandPathsModes == {"Off", "Safe"}

DecodeOptions ==
    {[DefaultOptions EXCEPT !.strict = s, !.indent = n, !.expand_paths = e] :
        s \in BOOLEAN, n \in IndentSizes, e \in ExpandPathsModes}

\* the caller hands a document and options to decode_from_str
Supply ==
    /\ pc = "idle"
    /\ \E t \in Documents, o \in DecodeOptions :
          /\ text' = t
          /\ opts' = o
    /\ via' = "text"
    /\ pc' = "text"
    /\ UNCHANGED <<out, wops, finished, input, result>>

\* decode_from_str(text, opts)
Decode ==
    /\ pc = "text"
    /\ result' = Invoke("decode_from_str", <<text, opts>>)
    /\ pc' = "decoded"
    /\ UNCHANGED <<out, wops, finished, input, via, opts, text>>

\* de::direct::from_str(text, opts) on a document whose root is a scalar
DecodeDirect ==
    /\ pc = "text"
    /\ via = "text"
    /\ Invoke("DirectScalarRoot", <<text>>)
    /\ result' = Invoke("direct_from_str", <<text, opts>>)
    /\ pc' = "direct"
    /\ UNCHANGED <<out, wops, finished, input, via, opts, text>>

\* decode::path_expand::expand_paths(value, strict) applied by the caller to a
\* decoded value when the options ask for expansion
ExpandPaths ==
    /\ pc = "decoded"
    /\ via = "text"
    /\ result.ok
    /\ opts.expand_paths = "Safe"
    /\ LET r == expand_paths(result.value, opts.strict)
       IN  result' = IF r.ok THEN [result EXCEPT !.value = r.v]
                     ELSE [result EXCEPT !.ok = FALSE, !.value = NoValue, !.error = r.e]
    /\ pc' = "expanded"
    /\ UNCHANGED <<out, wops, finished, input, via, opts, text>>

NextDecode == Supply \/ Decode \/ DecodeDirect \/ ExpandPaths

SpecDecode == Init /\ [][NextDecode]_vars

\* C2: with strict = false decode never returns an error: every supplied
\* document decodes to a value.
C2_NonStrictNeverErrors == (pc = "decoded" /\ ~opts.strict) => result.ok

\* C3: once the parser has recorded an error no later step replaces it: the
\* error field is assigned at most once during a decode and the error the
\* caller sees is the first one recorded.
C3_FirstErrorKept ==
    pc = "decoded" =>
        /\ Len(result.trace) <= 1
        /\ result.trace /= <<>> => (~result.ok /\ result.error = result.trace[1])

\* some non-blank line's leading spaces are not a multiple of indent_size, or
\* some line's leading whitespace holds a tab
BadIndentation(s, indent_size) ==
    \E i \in 1..Len(RawLines(s)) :
        LET raw == RawLines(s)[i]
        IN  \/ Invoke("parse_line", <<raw>>).kind.k /= "Blank" /\ leading_spaces(raw) % indent_size /= 0
            \/ LeadingWhitespaceHasTab(raw)

\* C4: with strict = true decode returns an error for every document in which
\* a non-blank line's leading-space count is not a multiple of opts.indent or
\* a line's leading whitespace contains a tab.
C4_StrictRejectsBadIndentation ==
    (pc = "decoded" /\ opts.strict /\ BadIndentation(text, opts.indent)) => ~result.ok

\* documents whose header declares a length other than the number of rows,
\* inline cells or list items present
LengthMismatchDocuments ==
    {ArrayDoc(f, nk[1], nk[2]) :
        f \in ArrayForms,
        nk \in {x \in (0..MaxDeclared) \X (0..MaxDeclared) : x[1] /= x[2]}}

\* C5: when the declared length differs from the number of rows, cells or
\* items present, strict decode returns an error and non-strict decode
\* succeeds.
C5_LengthEnforcement ==
    (pc = "decoded" /\ text \in LengthMismatchDocuments) =>
        (IF opts.strict THEN ~result.ok ELSE result.ok)

\* the keys of every object inside v
RECURSIVE AllKeys(_)
AllKeys(v) ==
    CASE v.t = "obj" -> {v.o[i].k : i \in 1..Len(v.o)}
                        \cup UNION {AllKeys(v.o[i].v) : i \in 1..Len(v.o)}
      [] v.t = "arr" -> UNION {AllKeys(v.a[i]) : i \in 1..Len(v.a)}
      [] OTHER -> {}

\* C11: with expand_paths = Safe the document "a.b: 1" decodes to
\* {"a": {"b": 1}}, the document "\"a.b\": 1" decodes to an object with the
\* single key a.b, and no key of a decoded value is an unquoted dotted key
\* whose segments are all identifiers.
C11_SafeExpandsDottedKeys ==
    (pc = "decoded" /\ via = "text" /\ opts.expand_paths = "Safe" /\ result.ok) =>
        /\ text = KeyDoc("root", <<"a", ".", "b">>) =>
              result.value = Obj(<<KV(<<"a">>, Obj(<<KV(<<"b">>, Integer(1))>>))>>)
        /\ text = KeyDoc("root", <<"\"", "a", ".", "b", "\"">>) =>
              result.value = Obj(<<KV(<<"a", ".", "b">>, Integer(1))>>)
        /\ \A k \in AllKeys(result.value) : ~should_expand_key(k)

\* C12: whatever the options, no key of a decoded value starts with the
\* zero-width-space marker (no supplied document holds that character), and
\* a quoted dotted key decodes to exactly its unescaped text.
C12_MarkerStripped ==
    (pc = "decoded" /\ via = "text" /\ result.ok) =>
        /\ \A k \in AllKeys(result.value) : ~StartsWith(k, <<QUOTED_DOT_MARKER>>)
        /\ text = KeyDoc("root", <<"\"", "a", ".", "b", "\"">>) =>
              AllKeys(result.value) = {<<"a", ".", "b">>}

\* optional '-', then '0', then one or more digits
LeadingZeroToken(tok) ==
    LET u == IF tok /= <<>> /\ tok[1] = "-" THEN Tail(tok) ELSE tok
    IN  Len(u) >= 2 /\ u[1] = "0" /\ AllDigits(u)

\* C17: an unquoted token made of an optional '-', a '0' and one or more
\* digits decodes to the string of its text at every position of the value
\* parser and as the root read by the direct deserializer.
C17_LeadingZerosStayText ==
    \A tok \in {t \in TokenSamples : LeadingZeroToken(t)} :
        /\ \A pos \in TokenPositions :
              (pc = "decoded" /\ via = "text" /\ text = TokenDoc(pos, tok)) =>
                  (result.ok /\ result.value = TokenValue(pos, Str(tok)))
        /\ (pc = "direct" /\ text = TokenDoc("root", tok)) =>
              (result.ok /\ result.value = Str(tok))

\* the tokens of the float grammar, and the value str::parse::<f64> gives them
FloatTokens ==
    {t \in TokenSamples : ~LeadingZeroToken(t) /\ classify_numeric_hint(t) = "Float"
                             /\ ParseF64(t).some}

\* the number a float token denotes: the integer of the same value when the
\* double is integer-valued, the double itself otherwise
TokenNumber(tok) ==
    LET f == ParseF64(tok).v
    IN  IF ~IsIntegerValued(f) THEN f
        ELSE IF f.m = 0 THEN Integer(0)
        ELSE IF Len(NatToStr(f.m)) + f.e <= MaxIntDigits
             THEN Integer(IF f.neg THEN -(f.m * Pow10(f.e)) ELSE f.m * Pow10(f.e))
        ELSE BigInteger(f.neg, f.m, f.e)

\* C18: a float token whose value is finite and integer-valued decodes to an
\* integer variant of the same numeric value; every other float token
\* decodes to the F64 of its value
C18_IntegerValuedFloats ==
    \A tok \in FloatTokens : \A pos \in TokenPositions :
        (pc = "decoded" /\ via = "text" /\ text = TokenDoc(pos, tok)) =>
            (result.ok /\ result.value = TokenValue(pos, TokenNumber(tok)))

\* decode_from_str of the same text with Options { strict: false, .. }
NonStrictDecode == Invoke("decode_from_str", <<text, [opts EXCEPT !.strict = FALSE]>>)

\* C19: when the strict decode of a text succeeds, the non-strict decode of
\* the same text succeeds too and returns an equal value
C19_StrictImpliesNonStrict ==
    (pc = "decoded" /\ via = "text" /\ opts.strict /\ result.ok) =>
        (NonStrictDecode.ok /\ NonStrictDecode.value = result.value)

\* a strict decode that succeeded on a document of several lines
W19_StrictAccepted ==
    /\ pc = "decoded" /\ via = "text" /\ opts.strict /\ result.ok
    /\ Contains(text, "\n")
    /\ result.value.t = "arr" /\ result.value.a /= <<>>

\* whether byte n of b lies inside a quoted region, and whether it is escaped:
\* the state after the bytes before it, a backslash inside quotes escaping
\* the next byte
RECURSIVE QuoteState(_, _)
QuoteState(b, n) ==
    IF n = 1 THEN [in_str |-> FALSE, escape |-> FALSE]
    ELSE LET q == QuoteState(b, n - 1)
         IN  IF q.in_str /\ q.escape THEN [in_str |-> TRUE, escape |-> FALSE]
             ELSE IF q.in_str /\ b[n - 1] = "\\" THEN [in_str |-> TRUE, escape |-> TRUE]
             ELSE IF b[n - 1] = "\"" THEN [in_str |-> ~q.in_str, escape |-> FALSE]
             ELSE [in_str |-> q.in_str, escape |-> FALSE]

\* the first ':' outside every quoted region, 0 when there is none
FirstColonOutsideQuotes(b) ==
    LET cs == {i \in 1..Len(b) : b[i] = ":" /\ ~QuoteState(b, i).in_str}
    IN  IF cs = {} THEN 0 ELSE CHOOSE i \in cs : \A j \in cs : i <= j

\* the bodies of the lines of the text
LineBodies(t) ==
    {Drop(RawLines(t)[i], leading_spaces(RawLines(t)[i])) : i \in 1..Len(RawLines(t))}

\* C24: on every line body the plain scan and the batch scan return the same
\* position, which is that of the first ':' outside every quoted region
C24_ColonScansAgree ==
    (pc = "decoded" /\ via = "text") =>
        \A body \in LineBodies(text) :
            /\ find_unquoted_colon(body) = FirstColonOutsideQuotes(body)
            /\ find_unquoted_colon_perf_memchr(body) = find_unquoted_colon(body)

\* a line with a colon inside quotes and a structural colon after them
W24_ColonAfterQuotes ==
    /\ pc = "decoded" /\ via = "text"
    /\ text = <<"\"", ":", "\"", ":">>
    /\ find_unquoted_colon_perf_memchr(text) = Len(text)

\* the row of a document of RowDocuments
RowOf(t) == Drop(t, Len(RowDoc(<<>>)))

\* C25: splitting a row at the declared delimiter keeps empty tokens (k
\* unquoted delimiters give k + 1 tokens), and the plain splitter, the batch
\* splitter and the splitter of the direct deserializer return the same
\* tokens
C25_SplittersAgree ==
    (pc = "decoded" /\ via = "text" /\ text \in RowDocuments) =>
        /\ Len(split_delim_aware(RowOf(text), ",")) =
              CountUnquoted(RowOf(text), 1, ",", FALSE, FALSE) + 1
        /\ split_delim_aware_perf_memchr(RowOf(text), ",") = split_delim_aware(RowOf(text), ",")
        /\ direct_split_delim_aware(RowOf(text), ",") = split_delim_aware(RowOf(text), ",")

\* the value under a path of keys, NoValue where the path leaves the objects
RECURSIVE ValueAt(_, _)
ValueAt(v, path) ==
    IF path = <<>> THEN v
    ELSE IF v.t /= "obj" THEN NoValue
    ELSE LET pos == KeyPosition(v.o, path[1])
         IN  IF pos.some THEN ValueAt(v.o[pos.v].v, Tail(path)) ELSE NoValue

\* the object nesting one leaf under a path of keys
RECURSIVE NestedUnder(_, _)
NestedUnder(path, v) ==
    IF path = <<>> THEN v ELSE Obj(<<KV(path[1], NestedUnder(Tail(path), v))>>)

IsProperPrefix(x, y) == Len(x) < Len(y) /\ Take(y, Len(x)) = x

\* one of the two entries holds an object where the other holds a leaf
MergeConflict(i, j) ==
    \/ IsProperPrefix(MergeSamples[i].path, MergeSamples[j].path)
    \/ IsProperPrefix(MergeSamples[j].path, MergeSamples[i].path)

\* C27: expanding a decoded document of two entries that share a prefix: where
\* both hold objects at every shared key the result is one object holding the
\* leaves of both; where one holds an object and the other a leaf at a shared
\* key, strict expansion is an error and non-strict expansion is the later
\* entry alone.
C27_PrefixMergeOrConflict ==
    pc = "expanded" =>
        \A p \in MergePairs :
            text = MergeDoc(p[1], p[2]) =>
                LET first == MergeSamples[p[1]]
                    later == MergeSamples[p[2]]
                IN  IF MergeConflict(p[1], p[2])
                    THEN /\ opts.strict => ~result.ok
                         /\ ~opts.strict =>
                               /\ result.ok
                               /\ result.value = NestedUnder(later.path, Integer(later.n))
                    ELSE /\ result.ok
                         /\ Len(result.value.o) = 1
                         /\ ValueAt(result.value, first.path) = Integer(first.n)
                         /\ ValueAt(result.value, later.path) = Integer(later.n)

\* a.b against a later a, refused by strict expansion
W27_ConflictRefused ==
    /\ pc = "expanded"
    /\ text = MergeDoc(1, 3)
    /\ opts.strict
    /\ ~result.ok

\* the assignments to idx among the first n entries of the cursor history
SetsBefore(c, n) == {i \in 1..n : c[i].ev = "set"}

\* entry i of the history puts idx back where the innermost round of an item
\* or row loop in progress found it: that round's arrival is the last arrival
\* before i, and between the two idx has only moved forward line by line
IsLookAheadRestore(c, i) ==
    \E t \in 1..(i - 1) :
        /\ c[t].ev = "iter"
        /\ c[t].loop \in {"parse_array", "parse_tabular_rows"}
        /\ c[t].idx = c[i].idx
        /\ \A k \in (t + 1)..(i - 1) : c[k].ev = "set" /\ c[k].idx = c[k].prev + 1

\* the statement as written: no assignment lowers idx, and every round of a
\* loop after its first finds idx past where the round before found it
CursorNeverDecreases ==
    pc = "decoded" =>
        \A i \in 1..Len(result.cursor) :
            /\ result.cursor[i].ev = "set" => result.cursor[i].idx >= result.cursor[i].prev
            /\ (result.cursor[i].ev = "iter" /\ result.cursor[i].prev /= -1) =>
                  result.cursor[i].idx > result.cursor[i].prev

\* C28: every round of a parsing loop after its first finds idx past where the
\* round before found it; an assignment to idx either moves one line forward
\* or is the restore that ends a strict look-ahead past blank lines, which
\* puts idx back where the round in progress found it; idx never passes the
\* line count by more than one, and no line is stepped over more than twice.
C28_CursorProgress ==
    pc = "decoded" =>
        LET c == result.cursor
            n == Len(RawLines(text))
        IN  /\ \A i \in 1..Len(c) :
                  /\ (c[i].ev = "iter" /\ c[i].prev /= -1) => c[i].idx > c[i].prev
                  /\ c[i].ev = "set" =>
                        \/ c[i].idx = c[i].prev + 1
                        \/ opts.strict /\ c[i].idx < c[i].prev /\ IsLookAheadRestore(c, i)
                  /\ c[i].idx >= 0 /\ c[i].idx <= n + 1
            /\ \A l \in 0..n :
                  Cardinality({i \in SetsBefore(c, Len(c)) : c[i].prev = l /\ c[i].idx = l + 1}) <= 2

\* a strict decode that met a blank line after an item of a list, looked
\* ahead and put idx back
W28_LookAheadRestored ==
    /\ pc = "decoded"
    /\ opts.strict
    /\ \E i \in 1..Len(result.cursor) :
          /\ result.cursor[i].ev = "set"
          /\ result.cursor[i].idx < result.cursor[i].prev
    /\ \E i \in 1..Len(result.cursor) :
          result.cursor[i].ev = "iter" /\ result.cursor[i].prev /= -1

(***************************************************************************)
(* A client of the encoders: a value is encoded and the text decoded       *)
(***************************************************************************)
MaxStrLen == 2

StrAlphabet == {"a", "1", ",", "|", "\t", ":", "\"", "\\", " ", "-", "@", "[", "\n"}

AlphabetStrings == UNION {[1..n -> StrAlphabet] : n \in 0..MaxStrLen}

\* strings that look like literals, headers or markers, and control characters
LiteralStrings ==
    {<<"t","r","u","e">>,
     <<"f","a","l","s","e">>,
     <<"n","u","l","l">>,
     <<"4","2">>,
     <<"-","7">>,
     <<"0","0","7">>,
     <<"1",".","5">>,
     <<"1","e","5">>,
     <<"i","n","f">>,
     <<"n","a","n">>,
     <<"I","n","f","i","n","i","t","y">>,
     <<"-","0">>,
     <<"{","0","}">>,
     <<"[","0","]">>,
     <<"a",".","b">>,
     <<"-"," ","a">>,
     <<"#">>,
     <<"@",","," ","a">>,
     <<BS>>, <<DEL>>}

StringSamples == AlphabetStrings \cup LiteralStrings

StringPositions == {"root", "field", "inline", "cell"}

\* the string s as a root value, an object field value, an inline array
\* element or a tabular cell
StringAt(pos, s) ==
    CASE pos = "root" -> Str(s)
      [] pos = "field" -> Obj(<<KV(<<"a">>, Str(s))>>)
      [] pos = "inline" -> Arr(<<Str(s), Str(<<"x">>)>>)
      [] pos = "cell" -> Arr(<<Obj(<<KV(<<"a">>, Str(s))>>)>>)

StringValues == {StringAt(pos, s) : pos \in StringPositions, s \in StringSamples}

PrimSamples ==
    {Null, Bool(TRUE), Bool(FALSE), Integer(1), Integer(-7),
     F64(FALSE, 15, -1), F64(FALSE, 2, 0), Str(<<"x">>)}

\* elements of the arrays whose form (tabular or not) is observed
RowSamples ==
    {Integer(1), Str(<<"x">>), Arr(<<Integer(1)>>), Obj(<<>>),
     Obj(<<KV(<<"a">>, Integer(1))>>),
     Obj(<<KV(<<"a">>, Integer(1)), KV(<<"b">>, Str(<<"x">>))>>),
     Obj(<<KV(<<"b">>, Str(<<"x">>)), KV(<<"a">>, Integer(1))>>),
     Obj(<<KV(<<"a">>, Obj(<<>>))>>),
     Obj(<<KV(<<"a">>, Arr(<<Integer(1)>>))>>)}

MaxArrayLen == 2

ArraySamples == {Arr(a) : a \in UNION {[1..n -> RowSamples] : n \in 0..MaxArrayLen}}

ArrayPositions == {"root", "field", "item"}

\* the array arr at the root, as an object field, or as an item of a list
ArrayAt(pos, arr) ==
    CASE pos = "root" -> arr
      [] pos = "field" -> Obj(<<KV(<<"k">>, arr)>>)
      [] pos = "item" -> Arr(<<arr>>)

ArrayValues == {ArrayAt(pos, arr) : pos \in ArrayPositions, arr \in ArraySamples}

\* values of an object's fields
FieldSamples ==
    PrimSamples \cup
    {Obj(<<>>), Obj(<<KV(<<"a">>, Integer(1))>>), Obj(<<KV(<<"a">>, Obj(<<>>))>>),
     Arr(<<>>), Arr(<<Integer(1), Str(<<"x">>)>>), Arr(<<Obj(<<>>)>>),
     Arr(<<Obj(<<KV(<<"a">>, Integer(1)), KV(<<"b">>, Null)>>)>>)}

ObjectSamples ==
    {Obj(<<>>)}
    \cup {Obj(<<KV(<<"a">>, v)>>) : v \in FieldSamples}
    \cup {Obj(<<KV(<<"a">>, v), KV(<<"b">>, w)>>) : v \in FieldSamples, w \in FieldSamples}

\* objects as list items
ItemValues == {Arr(<<o, Integer(1)>>) : o \in ObjectSamples}

NonFinites == {NonFinite("NaN"), NonFinite("Infinity"), NonFinite("-Infinity")}

NonFinitePositions == {"root", "field", "inline", "cell", "item"}

\* the number x at the root, as an object field value, an inline array
\* element, a tabular cell, or an item of an expanded list
NumberAt(pos, x) ==
    CASE pos = "root" -> x
      [] pos = "field" -> Obj(<<KV(<<"a">>, x)>>)
      [] pos = "inline" -> Arr(<<x, Integer(1)>>)
      [] pos = "cell" -> Arr(<<Obj(<<KV(<<"a">>, x)>>)>>)
      [] pos = "item" -> Arr(<<x, Arr(<<>>)>>)

NonFiniteValues == {NumberAt(pos, x) : pos \in NonFinitePositions, x \in NonFinites}

\* values of the data model (Number::F64 holds finite values only)
ModelValues == PrimSamples \cup StringValues \cup ArrayValues \cup ObjectSamples \cup ItemValues

\* what a serializer can be handed
EncoderInputs == ModelValues \cup NonFiniteValues

EncodeOptions ==
    {[DefaultOptions EXCEPT !.delimiter = d, !.indent = n, !.strict = s] :
        d \in Delimiters, n \in IndentSizes, s \in BOOLEAN}

\* a chain of three single-key objects
Chain3 == Obj(<<KV(<<"a">>, Obj(<<KV(<<"b">>, Obj(<<KV(<<"c">>, Integer(1))>>))>>))>>)

\* objects with a chain of single-key objects next to a sibling, at the root,
\* under a key and as a list item
FoldObjects ==
    {Obj(<<KV(<<"a">>, Obj(<<KV(<<"b">>, Integer(1))>>))>>),
     Obj(<<KV(<<"a">>, Obj(<<KV(<<"b">>, Integer(1))>>)), KV(<<"a", ".", "b">>, Integer(2))>>),
     Obj(<<KV(<<"a", ".", "b">>, Integer(2)), KV(<<"a">>, Obj(<<KV(<<"b">>, Integer(1))>>))>>),
     Obj(<<KV(<<"a">>, Obj(<<KV(<<"b">>, Obj(<<KV(<<"c">>, Integer(1))>>))>>)),
           KV(<<"a", ".", "b">>, Integer(2))>>),
     Obj(<<KV(<<"a">>, Obj(<<KV(<<"b">>, Obj(<<KV(<<"c">>, Integer(1))>>))>>)),
           KV(<<"a", ".", "b", ".", "c">>, Integer(2))>>),
     Obj(<<KV(<<"a">>, Obj(<<KV(<<"b">>, Integer(1))>>)), KV(<<"c">>, Integer(2))>>),
     Chain3}

FoldPositions == {"root", "field", "item"}

FoldAt(pos, o) ==
    CASE pos = "root" -> o
      [] pos = "field" -> Obj(<<KV(<<"x">>, o)>>)
      [] pos = "item" -> Arr(<<o>>)

FoldValues == {FoldAt(pos, o) : pos \in FoldPositions, o \in FoldObjects}

MaxFlattenDepth == 2

FoldOptions ==
    {[DefaultOptions EXCEPT !.key_folding = "Safe", !.flatten_depth = d] :
        d \in {<<>>, <<MaxFlattenDepth>>}}

\* finite doubles: large and small magnitudes, fractions, integer values and
\* the two zeros
DoubleSamples ==
    {F64(FALSE, 1, 21), F64(FALSE, 1, 16), F64(FALSE, 1, -7), F64(TRUE, 12, -9),
     F64(TRUE, 15, -1), F64(FALSE, 5, -1), F64(FALSE, 123, -2), F64(FALSE, 2, 0),
     F64(FALSE, 25, 1), F64(FALSE, 0, 0), F64(TRUE, 0, 0)}

DoubleValues == {NumberAt(pos, d) : pos \in NonFinitePositions, d \in DoubleSamples}

\* object keys: identifiers, dotted names, and keys that are empty, hold a
\* space, a hyphen, a colon or a quote, or start with a digit
KeySamples ==
    {<<"a">>, <<"_">>, <<"_", "a", "1">>, <<"A", "b">>, <<"a", ".", "b">>, <<"a", ".">>,
     <<>>, <<"a", " ", "b">>, <<"1", "a">>, <<"a", "-", "b">>, <<"-">>, <<".", "a">>,
     <<"a", ":">>, <<"a", "\"">>, <<"1">>, <<" ">>, <<"a", ",", "b">>, <<"[", "a", "]">>}

KeyUses == {"field", "object", "inline", "empty", "list", "tabular", "item", "item_tabular"}

\* a value in which key k names a plain field, a nested object, an inline,
\* empty, expanded or tabular array, the first field of a list item, or a
\* column of a table
KeyAt(use, k) ==
    CASE use = "field" -> Obj(<<KV(k, Integer(1))>>)
      [] use = "object" -> Obj(<<KV(k, Obj(<<KV(<<"z">>, Integer(1))>>))>>)
      [] use = "inline" -> Obj(<<KV(k, Arr(<<Integer(1), Integer(2)>>))>>)
      [] use = "empty" -> Obj(<<KV(k, Arr(<<>>))>>)
      [] use = "list" -> Obj(<<KV(k, Arr(<<Arr(<<>>)>>))>>)
      [] use = "tabular" -> Obj(<<KV(k, Arr(<<Obj(<<KV(<<"z">>, Integer(1))>>)>>))>>)
      [] use = "item" -> Arr(<<Obj(<<KV(k, Integer(1))>>), Integer(1)>>)
      [] use = "item_tabular" -> Arr(<<Obj(<<KV(k, Integer(1))>>)>>)

KeyValues == {KeyAt(use, k) : use \in KeyUses, k \in KeySamples}

\* structs (values serialized through serialize_struct): scalar fields, a field
\* holding a chain of objects, a struct under a map key and in a list
StructSamples ==
    {Struct(<<KV(<<"a">>, Integer(1)), KV(<<"b">>, Str(<<"x">>))>>),
     Struct(<<KV(<<"a">>, Obj(<<KV(<<"b">>, Integer(1))>>))>>)}

StructValues ==
    StructSamples \cup {Obj(<<KV(<<"k">>, st)>>) : st \in StructSamples}
    \cup {Arr(<<st>>) : st \in StructSamples}

\* the calls made to the encoders: a value and the options it is encoded under
EncodeCases ==
    (EncoderInputs \X EncodeOptions) \cup (FoldValues \X FoldOptions)
    \cup ((DoubleValues \cup KeyValues) \X {DefaultOptions})
    \cup (StructValues \X (FoldOptions \cup {DefaultOptions}))

\* lib.rs encode_to_string: the streaming serializer
EncodeStreaming ==
    /\ pc = "idle"
    /\ \E c \in EncodeCases :
          /\ input' = c[1]
          /\ opts' = c[2]
          /\ text' = Invoke("encode_to_string", <<c[1], c[2]>>)
    /\ via' = "streaming"
    /\ pc' = "text"
    /\ UNCHANGED <<out, wops, finished, result>>

\* ser::to_string: the value-based encoder
EncodeValue ==
    /\ pc = "idle"
    /\ \E c \in EncodeCases :
          /\ input' = c[1]
          /\ opts' = c[2]
          /\ text' = Invoke("to_string", <<c[1], c[2]>>)
    /\ via' = "value"
    /\ pc' = "text"
    /\ UNCHANGED <<out, wops, finished, result>>

NextCodec == EncodeStreaming \/ EncodeValue \/ Decode

SpecCodec == Init /\ [][NextCodec]_vars

Next == NextWriter \/ NextDecode \/ EncodeStreaming \/ EncodeValue

Spec == Init /\ [][Next]_vars

\* a number as sign, mantissa and decimal exponent
Magnitude(v) ==
    IF v.k = "int" THEN NormF64(v.i < 0, IF v.i < 0 THEN -v.i ELSE v.i, 0)
    ELSE NormF64(v.neg, v.m, v.e)

SameNumber(x, y) ==
    IF x.k = "sat" \/ y.k = "sat" THEN x = y
    ELSE LET mx == Magnitude(x)
             my == Magnitude(y)
         IN  mx.m = my.m /\ mx.e = my.e /\ (mx.m = 0 \/ mx.neg = my.neg)

\* structural equality of values: numbers by numeric value (an integer-valued
\* double equals the integer), objects as maps from keys to values
RECURSIVE SameValue(_, _)
SameValue(x, y) ==
    IF x.t /= y.t THEN FALSE
    ELSE CASE x.t = "num" -> SameNumber(x, y)
           [] x.t = "arr" ->
                 /\ Len(x.a) = Len(y.a)
                 /\ \A i \in 1..Len(x.a) : SameValue(x.a[i], y.a[i])
           [] x.t = "obj" ->
                 /\ Len(x.o) = Len(y.o)
                 /\ \A i \in 1..Len(x.o) :
                       HasKey(y.o, x.o[i].k) /\ SameValue(x.o[i].v, Get(y.o, x.o[i].k))
           [] OTHER -> x = y

\* C1: decoding the text produced by encoding a value of the data model with
\* the same options yields a value structurally equal to the original.
C1_RoundTrip ==
    (pc = "decoded" /\ via = "streaming" /\ input \in ModelValues) =>
        (result.ok /\ SameValue(result.value, input))

\* a text holding the single line l, with or without a closing line feed
SingleLine(t, l) == t = l \/ t = l \o <<"\n">>

\* C7: an empty object at the root is emitted as the single line "{0}:" and
\* decodes back to an empty object; an empty object under a key emits only
\* the "key:" header line.
C7_EmptyObject ==
    /\ (pc \in {"text", "decoded"} /\ via \in {"streaming", "value"} /\ input = Obj(<<>>)) =>
          SingleLine(text, <<"{", "0", "}", ":">>)
    /\ (pc = "decoded" /\ via \in {"streaming", "value"} /\ input = Obj(<<>>)) =>
          (result.ok /\ result.value = Obj(<<>>))
    /\ (pc \in {"text", "decoded"} /\ via \in {"streaming", "value"}
        /\ input = Obj(<<KV(<<"a">>, Obj(<<>>))>>)) =>
          SingleLine(text, <<"a", ":">>)

\* the condition under which an array is to be emitted in tabular form
TabularEligible(arr) ==
    /\ arr.a /= <<>>
    /\ \A i \in 1..Len(arr.a) : arr.a[i].t = "obj"
    /\ \A i \in 1..Len(arr.a) :
          {arr.a[i].o[j].k : j \in 1..Len(arr.a[i].o)}
              = {arr.a[1].o[j].k : j \in 1..Len(arr.a[1].o)}
    /\ \A i \in 1..Len(arr.a) : \A j \in 1..Len(arr.a[i].o) : is_primitive(arr.a[i].o[j].v)

\* a "[N]{fields}:" header was written (the sample values hold no brace)
EmittedTabular(t) == Contains(t, "{")

\* C8: an array is emitted in tabular form exactly when it is non-empty, all
\* its elements are objects with one key set and primitive field values, at
\* the root, as an object field and as a list item, by both encoders.
C8_TabularIff ==
    (pc \in {"text", "decoded"} /\ via \in {"streaming", "value"}) =>
        \A pos \in ArrayPositions : \A arr \in ArraySamples :
            input = ArrayAt(pos, arr) => (EmittedTabular(text) <=> TabularEligible(arr))

\* C9: a string encoded at the root, as a field value, as an inline array
\* element or as a tabular cell decodes, under the same options, to exactly
\* the same string, for every delimiter.
C9_StringRoundTrip ==
    (pc = "decoded" /\ via = "streaming" /\ input \in StringValues) =>
        (result.ok /\ result.value = input)

\* C10: a non-finite double handed to the encoder is emitted as null at every
\* position: the text is the one produced for the same value with null in
\* place of the number.
C10_NonFiniteIsNull ==
    (pc \in {"text", "decoded"} /\ input \in NonFiniteValues) =>
        text = (IF via = "streaming" THEN Invoke("encode_to_string", <<Invoke("to_value", <<input>>), opts>>)
                ELSE Invoke("to_string", <<Invoke("to_value", <<input>>), opts>>))

\* the level and the key text of an emitted line: the columns before the key
\* (a list item's hyphen and space included) and the text before the colon
LineKey(raw) ==
    LET body == Drop(raw, leading_spaces(raw))
        item == StartsWith(body, <<"-", " ">>)
        field == IF item THEN Drop(body, 2) ELSE body
        colon == IndexOfIn(field, {":"})
    IN  [level |-> leading_spaces(raw) + (IF item THEN 2 ELSE 0),
         key |-> IF colon = 0 THEN field ELSE Take(field, colon - 1)]

\* no two lines of t carry the same key text at the same level (the sample
\* objects hold one object per level)
DistinctLineKeys(t) ==
    \A i \in 1..Len(RawLines(t)) : \A j \in 1..Len(RawLines(t)) :
        i < j => LineKey(RawLines(t)[i]) /= LineKey(RawLines(t)[j])

\* the dotted key that folding produces for some field of o is a sibling key
FoldCollides(o, options) ==
    \E i \in 1..Len(o) :
        /\ o[i].v.t = "obj"
        /\ try_fold_keys_no_collision(o[i].k, o[i].v.o, options).some
        /\ HasKey(o, try_fold_keys_no_collision(o[i].k, o[i].v.o, options).v.key)

\* C13: with key_folding = Safe a field whose folded key equals a sibling key
\* is written unfolded with nothing folded beneath it (the text is the one
\* written with key_folding = Off), and no two lines of the encoded object
\* carry the same key at one level, at the root, under a key and in a list
\* item.
C13_FoldCollision ==
    (pc \in {"text", "decoded"} /\ via \in {"streaming", "value"}
     /\ opts.key_folding = "Safe") =>
        \A pos \in FoldPositions : \A o \in FoldObjects :
            input = FoldAt(pos, o) =>
                /\ DistinctLineKeys(text)
                /\ FoldCollides(o.o, opts) =>
                      text = (IF via = "streaming"
                              THEN Invoke("encode_to_string",
                                          <<input, [opts EXCEPT !.key_folding = "Off"]>>)
                              ELSE Invoke("to_string",
                                          <<input, [opts EXCEPT !.key_folding = "Off"]>>))

\* the text the encoder is to write for the number token tok at a position
NumberText(pos, tok) ==
    CASE pos = "root" -> tok
      [] pos = "field" -> <<"a", ":", " ">> \o tok
      [] pos = "inline" -> <<"[", "2", "]", ":", " ">> \o tok \o <<",", "1">>
      [] pos = "cell" -> JoinLines(<<(<<"[", "1", "]", "{", "a", "}", ":">>), <<" ", " ">> \o tok>>)
      [] pos = "item" -> JoinLines(<<(<<"[", "2", "]", ":">>), <<" ", " ", "-", " ">> \o tok,
                                     <<" ", " ", "-", " ", "[", "0", "]", ":">>>>)

\* s parses back to d and has the canonical shape
IsCanonicalTextOf(s, d) ==
    LET u == IF s /= <<>> /\ s[1] = "-" THEN Tail(s) ELSE s
    IN  /\ ParseF64(s).some /\ SameNumber(ParseF64(s).v, d)
        /\ ~Contains(s, "e") /\ ~Contains(s, "E") /\ ~Contains(s, "+")
        /\ Contains(s, ".") => s[Len(s)] \notin {"0", "."}
        /\ (Len(u) > 1 /\ u[1] = "0") => u[2] = "."
        /\ d.m = 0 => s = <<"0">>

\* C14: the canonical text of a finite double parses back to it, holds no
\* exponent marker, trailing fractional zero or '+', has at most one leading
\* 0 before the point and is "0" for negative zero; and it is the text the
\* encoders write for the double at every position.
C14_CanonicalNumbers ==
    (pc \in {"text", "decoded"} /\ via \in {"streaming", "value"} /\ opts = DefaultOptions) =>
        \A pos \in NonFinitePositions : \A d \in DoubleSamples :
            input = NumberAt(pos, d) =>
                /\ IsCanonicalTextOf(format_canonical_f64(d), d)
                /\ SingleLine(text, NumberText(pos, format_canonical_f64(d)))

\* k matches [A-Za-z_][A-Za-z0-9_.]*
MatchesUnquotedKey(k) ==
    /\ k /= <<>>
    /\ k[1] \in AlphaSet \cup {"_"}
    /\ \A i \in 2..Len(k) : k[i] \in AlphaSet \cup DigitSet \cup {"_", "."}

\* the text to be written where key token kt names each kind of field
KeyText(use, kt) ==
    CASE use = "field" -> kt \o <<":", " ", "1">>
      [] use = "object" -> JoinLines(<<kt \o <<":">>, <<" ", " ", "z", ":", " ", "1">>>>)
      [] use = "inline" -> kt \o <<"[", "2", "]", ":", " ", "1", ",", "2">>
      [] use = "empty" -> kt \o <<"[", "0", "]", ":">>
      [] use = "list" -> JoinLines(<<kt \o <<"[", "1", "]", ":">>,
                                     <<" ", " ", "-", " ", "[", "0", "]", ":">>>>)
      [] use = "tabular" -> JoinLines(<<kt \o <<"[", "1", "]", "{", "z", "}", ":">>,
                                        <<" ", " ", "1">>>>)
      [] use = "item" -> JoinLines(<<(<<"[", "2", "]", ":">>),
                                     <<" ", " ", "-", " ">> \o kt \o <<":", " ", "1">>,
                                     <<" ", " ", "-", " ", "1">>>>)
      [] use = "item_tabular" -> JoinLines(<<<<"[", "1", "]", "{">> \o kt \o <<"}", ":">>,
                                             <<" ", " ", "1">>>>)

LastLine(t) == RawLines(t)[Len(RawLines(t))]

\* C16: an empty array is written as the single header "[0]:" at the root,
\* as "k[0]:" under the key k and as "- [0]:" in a list, for every delimiter,
\* and the text decodes to the value that was encoded.
C16_EmptyArray ==
    (pc \in {"text", "decoded"} /\ via \in {"streaming", "value"}) =>
        /\ input = ArrayAt("root", Arr(<<>>)) => SingleLine(text, <<"[", "0", "]", ":">>)
        /\ input = ArrayAt("field", Arr(<<>>)) =>
              SingleLine(text, <<"k", "[", "0", "]", ":">>)
        /\ input = ArrayAt("item", Arr(<<>>)) =>
              (text /= <<>>
               /\ StrTrim(LastLine(text)) = <<"-", " ", "[", "0", "]", ":">>)
        /\ (pc = "decoded" /\ \E pos \in ArrayPositions : input = ArrayAt(pos, Arr(<<>>))) =>
              (result.ok /\ result.value = input)

\* encode_to_string of the decoded value under the same options, and the
\* decode of that text
Reencoded == Invoke("encode_to_string", <<result.value, opts>>)

Redecoded == Invoke("decode_from_str", <<Reencoded, opts>>)

\* C20: decoding a text the encoder produced under opts and encoding the
\* value again reproduces the text exactly; and for an accepted text x,
\* decode(encode(decode(x))) equals decode(x)
C20_CanonicalFixpoint ==
    /\ (pc = "decoded" /\ via = "streaming") => (result.ok /\ Reencoded = text)
    /\ (pc = "decoded" /\ via = "streaming" /\ result.ok) =>
          (Redecoded.ok /\ Redecoded.value = result.value)

\* ser::to_string of the value the streaming serializer was given
ValueBasedText == Invoke("to_string", <<input, opts>>)

\* C21: the streaming serializer and the value-based encoder produce the
\* same text for every value and options
C21_StreamEqualsValue ==
    (pc = "text" /\ via = "streaming") => text = ValueBasedText

\* the strings the quoting rule is about: the active delimiter or ':' inside,
\* a leading '-', a leading or trailing space
MustBeQuoted(s, delim) ==
    /\ s /= <<>>
    /\ \/ Contains(s, delimiter_char(delim))
       \/ Contains(s, ":")
       \/ s[1] = "-"
       \/ s[1] = " "
       \/ s[Len(s)] = " "

\* t with its first occurrence of the character c replaced by the text r
ReplaceFirst(t, c, r) ==
    LET i == IndexOfIn(t, {c})
    IN  IF i = 0 THEN t ELSE Take(t, i - 1) \o r \o Drop(t, i)

\* the string held by a value of StringValues built for the position
StringOf(pos, v) ==
    CASE pos = "root" -> IF v.t = "str" THEN v.s ELSE <<>>
      [] pos = "field" -> IF v.t = "obj" THEN v.o[1].v.s ELSE <<>>
      [] pos = "inline" -> IF v.t = "arr" /\ v.a[1].t = "str" THEN v.a[1].s ELSE <<>>
      [] pos = "cell" -> IF v.t = "arr" /\ v.a[1].t = "obj" THEN v.a[1].o[1].v.s ELSE <<>>

\* the text written for the string "x" at the position, with the token x
\* replaced by the double-quoted literal of s
QuotedTextAt(pos, s) ==
    ReplaceFirst(IF via = "streaming"
                 THEN Invoke("encode_to_string", <<StringAt(pos, <<"x">>), opts>>)
                 ELSE Invoke("to_string", <<StringAt(pos, <<"x">>), opts>>),
                 "x", escape_and_quote(s))

\* C22: a string holding the active delimiter or ':', starting with '-', or
\* starting or ending with a space is written as a double-quoted literal at
\* every position where a string value is emitted
C22_RiskyStringsQuoted ==
    \A pos \in StringPositions :
        (/\ pc = "text"
         /\ input \in StringValues
         /\ input = StringAt(pos, StringOf(pos, input))
         /\ MustBeQuoted(StringOf(pos, input), opts.delimiter)) =>
            text = QuotedTextAt(pos, StringOf(pos, input))

\* a quoted literal has been written for a string holding the delimiter
W22_QuotedStringWritten ==
    /\ pc = "text" /\ via = "streaming" /\ opts.delimiter = "Pipe"
    /\ input = StringAt("cell", <<"a", "|">>)
    /\ text = QuotedTextAt("cell", <<"a", "|">>)

\* the number of dot-separated segments of an unquoted key text
KeySegments(key) == Cardinality({i \in 1..Len(key) : key[i] = "."}) + 1

\* the key texts of the lines of t
LineKeys(t) == {LineKey(RawLines(t)[i]).key : i \in 1..Len(RawLines(t))}

\* the segments of the keys of the lines from the i-th on, in line order; the
\* header line of a root array carries no key
RECURSIVE SegmentsFrom(_, _)
SegmentsFrom(lines, i) ==
    IF i > Len(lines) THEN <<>>
    ELSE LET key == LineKey(lines[i]).key
         IN  (IF key /= <<>> /\ key[1] = "[" THEN <<>> ELSE StrSplit(key, "."))
             \o SegmentsFrom(lines, i + 1)

\* the keys of the chain of three at the position, outermost first
ChainKeys(pos) ==
    IF pos = "field" THEN <<(<<"x">>), <<"a">>, <<"b">>, <<"c">>>>
    ELSE <<(<<"a">>), <<"b">>, <<"c">>>>

\* C23: with key_folding = Safe and flatten_depth = Some(k) no folded key
\* joins more than k segments (a longer dotted key on a line is a key of the
\* input), and the chain below the k-th segment is written structurally: the
\* keys of a chain reappear in order on lines of growing depth
C23_FlattenDepthCaps ==
    (pc = "text" /\ opts.key_folding = "Safe" /\ opts.flatten_depth /= <<>>) =>
        /\ \A key \in LineKeys(text) :
              (key /= <<>> /\ key[1] /= "\"" /\ KeySegments(key) > opts.flatten_depth[1]) =>
                  key \in AllKeys(input)
        /\ \A pos \in FoldPositions :
              input = FoldAt(pos, Chain3) =>
                  /\ SegmentsFrom(RawLines(text), 1) = ChainKeys(pos)
                  /\ \A i \in 1..Len(RawLines(text)) : \A j \in 1..Len(RawLines(text)) :
                        i < j => LineKey(RawLines(text)[i]).level < LineKey(RawLines(text)[j]).level

\* the chain of three has been written with its first two keys joined
W23_ChainCutAtDepth ==
    /\ pc = "text" /\ via = "value" /\ opts.key_folding = "Safe"
    /\ opts.flatten_depth = <<MaxFlattenDepth>>
    /\ input = Chain3
    /\ <<"a", ".", "b">> \in LineKeys(text)
    /\ <<"c">> \in LineKeys(text)

\* the decode of the same input encoded by the same path with indent = 2
DecodedAtIndent2 ==
    Invoke("decode_from_str",
           <<IF via = "streaming"
             THEN Invoke("encode_to_string", <<input, [opts EXCEPT !.indent = 2]>>)
             ELSE Invoke("to_string", <<input, [opts EXCEPT !.indent = 2]>>),
             [opts EXCEPT !.indent = 2]>>)

\* C26: the parser opens child frames at the next line's actual column, so a
\* text encoded with indent = 4 decodes to the same value as the same
\* structure encoded with indent = 2
C26_IndentStepIrrelevant ==
    (pc = "decoded" /\ via \in {"streaming", "value"} /\ opts.indent = 4
     /\ input \in ModelValues) =>
        (result.ok = DecodedAtIndent2.ok /\ result.value = DecodedAtIndent2.value)

\* C29: strict decode, with the options of the encoding, accepts every text
\* either encoder has written.
C29_StrictAcceptsEncoded ==
    (pc = "decoded" /\ via \in {"streaming", "value"} /\ opts.strict) => result.ok

\* the map holding the entries of a struct, in the same order
RECURSIVE AsMap(_)
AsMap(v) ==
    CASE v.t \in {"obj", "struct"} -> Obj([i \in 1..Len(v.o) |-> KV(v.o[i].k, AsMap(v.o[i].v))])
      [] v.t = "arr" -> Arr([i \in 1..Len(v.a) |-> AsMap(v.a[i])])
      [] OTHER -> v

\* C30: with key_folding = Safe the streaming serializer writes for a struct
\* the text it writes for the map with the same entries, and that text is not
\* empty when the struct has a field.
C30_StructFieldsEmitted ==
    (pc = "text" /\ via = "streaming" /\ opts.key_folding = "Safe" /\ input.t = "struct") =>
        /\ text = Invoke("encode_to_string", <<AsMap(input), opts>>)
        /\ input.o /= <<>> => text /= <<>>
====
